---------------------------- MODULE Spec2Model ----------------------------
(***************************************************************************)
(* A model of the hybrid retrieval core of the qavectorizer service        *)
(* (backend/qavectorizer/src/vector_search.py): Reciprocal Rank Fusion of  *)
(* the vector and the full-text rank maps, the chunk selector, and the     *)
(* full-document-vs-chunks policy of VectorSearch._prepare_results.        *)
(***************************************************************************)
EXTENDS Integers, Sequences, FiniteSets, TLC

VARIABLES
    pc,                 \* position of the request inside VectorSearch.search
    query,              \* the query text, a sequence of characters
    filter_ids,         \* Optional[List[str]]: [none |-> BOOLEAN, ids |-> Seq]
    force_rag,          \* bool
    retrieval_method,   \* str
    collection_id,      \* Optional[str]: [none |-> BOOLEAN, value |-> STRING]
    results,            \* response of the vector search, [] before it
    response_full_text, \* response of the full-text search, [] before it
    vector_ranks,       \* chunk identity -> rank of the vector search
    full_text_ranks,    \* chunk identity -> rank of the full-text search
    rrf_k,              \* the RRF constant of the request
    knn_k,              \* nearest neighbours asked of the vector search
    chunks_to_gather,   \* chunk budget of the request
    inner_hits_size,    \* inner hits asked of the full-text search
    query_body,         \* body of the vector search
    query_full_text,    \* body of the full-text search
    combined_scores,    \* chunk identity -> fused score (a fraction)
    final_ranking,      \* sequence of <<chunk identity, score>>
    doc_chunks_id_map,  \* insertion-ordered dict: Seq of [id, chunks]
    retrieved,          \* number of doc_ids the retriever loop has handled
    full_docs,          \* documents the retriever returned, in order
    doc_results,        \* the list search returns
    calls,              \* the collaborator calls of the request, in order
    sem_value,          \* text-generation: the permits of the semaphore
    waiters,            \* text-generation: requests waiting in acquire, FIFO
    gpc,                \* text-generation: position of every request
    endpoint,           \* text-generation: the route of every request
    holds,              \* text-generation: permits every request holds
    attempts,           \* text-generation: acquire attempts of every request
    fpc,                \* position of the request of query_elastic_index
    req,                \* QueryElasticIndexRequest
    index_query,        \* the dict `query` of query_elastic_index
    search_res,         \* the search response the result is built from
    count_kw,           \* Optional[int], diagnostic count
    count_text,         \* Optional[int], diagnostic count
    count_all,          \* Optional[int], diagnostic count
    searches,           \* the searches sent to the index, in order
    returned,           \* the search response the hits of the result come from
    instance,           \* the attributes of the shared VectorSearch instance
    cpc,                \* concurrent searches: position of every request
    cargs,              \* concurrent searches: the arguments of every request
    canswers,           \* concurrent searches: what the collaborators answered
    frame,              \* concurrent searches: the local variables of the calls
    cresult,            \* concurrent searches: the list every request returned
    overlapped          \* concurrent searches: two requests ran side by side

\* The arguments of search.
request == <<query, filter_ids, force_rag, retrieval_method, collection_id>>

responses == <<results, response_full_text>>

rank_maps == <<vector_ranks, full_text_ranks>>

fusion == <<rrf_k, combined_scores, final_ranking>>

retrieval == <<retrieved, full_docs>>

\* The sizes set from filter_ids and the queries built with them.
parameters == <<knn_k, chunks_to_gather, inner_hits_size, query_body,
                query_full_text>>

\* The state of one request of VectorSearch.search.
search_vars == <<pc, request, parameters, responses, rank_maps, fusion,
                 doc_chunks_id_map, retrieval, doc_results, calls>>

\* The state of the admission gate of the text-generation service.
gate == <<sem_value, waiters, gpc, endpoint, holds, attempts>>

\* The state of one request of query_elastic_index.
facets == <<fpc, req, index_query, search_res, count_kw, count_text,
            count_all, searches, returned>>

\* The state of the concurrent requests of VectorSearch.search.
concurrent == <<instance, cpc, cargs, canswers, frame, cresult, overlapped>>

\* The state of the endpoints other than one request of VectorSearch.search.
other_endpoints == <<gate, facets, concurrent>>

vars == <<search_vars, other_endpoints>>

-----------------------------------------------------------------------------
(* Bounds of the model *)

\* Documents of a drawn document-chunk map in the policy specification.
MaxPolicyDocs == 2

\* Documents and chunks per document of the large drawn rank maps.
MaxGridDocs == 6

MaxGridChunks == 6

\* Chunks of the one document of the largest single-document rank map.
MaxSingleChunks == 41

\* Concurrent requests of the text-generation service.
MaxRequests == 2

Requests == 1..MaxRequests

\* The acquire attempts of a request are counted up to this many.
MaxAttemptsCounted == 2

\* Concurrent requests of VectorSearch.search.
MaxSearches == 2

Searches == 1..MaxSearches

-----------------------------------------------------------------------------
(* The endpoints at rest *)

\* asyncio.Semaphore(1) and no request in the text-generation service.
GateAtRest ==
    /\ sem_value = 1
    /\ waiters = <<>>
    /\ gpc = [r \in Requests |-> "idle"]
    /\ endpoint = [r \in Requests |-> "generate"]
    /\ holds = [r \in Requests |-> 0]
    /\ attempts = [r \in Requests |-> 0]

\* No count was taken.
NoCount == [none |-> TRUE, value |-> 0]

\* No search was answered.
NoSearchResult == [kind |-> "none", query |-> <<>>, total |-> 0]

\* No request of query_elastic_index.
FacetsAtRest ==
    /\ fpc = "no request"
    /\ req = <<>>
    /\ index_query = <<>>
    /\ search_res = NoSearchResult
    /\ count_kw = NoCount
    /\ count_text = NoCount
    /\ count_all = NoCount
    /\ searches = <<>>
    /\ returned = NoSearchResult

\* Lines 82-86: the attributes __init__ sets.
InstanceAtInit ==
    [model |-> "model", es_client |-> "es_client", tokenizer |-> "tokenizer",
     retrievers |-> "retrievers", default_retriever |-> "default_retriever"]

\* No argument was passed.
NoArgs == [query |-> <<>>, filter_ids |-> [none |-> TRUE, ids |-> <<>>],
           force_rag |-> FALSE]

\* No collaborator has answered.
NoAnswers == [vector_ranks |-> <<>>, full_text_ranks |-> <<>>, retrieved |-> <<>>]

\* The local variables of a call of search before their assignment.
EmptyFrame ==
    [vector_ranks |-> <<>>, full_text_ranks |-> <<>>, final_ranking |-> <<>>,
     doc_chunks_id_map |-> <<>>, full_docs |-> <<>>]

\* The instance as constructed and no request of search.
ConcurrentAtRest ==
    /\ instance = InstanceAtInit
    /\ cpc = [r \in Searches |-> "idle"]
    /\ cargs = [r \in Searches |-> NoArgs]
    /\ canswers = [r \in Searches |-> NoAnswers]
    /\ frame = [r \in Searches |-> EmptyFrame]
    /\ cresult = [r \in Searches |-> <<>>]
    /\ overlapped = FALSE

OtherEndpointsAtRest == GateAtRest /\ FacetsAtRest /\ ConcurrentAtRest

-----------------------------------------------------------------------------
(* Python values *)

\* filter_ids=None
NoneIds == [none |-> TRUE, ids |-> <<>>]

ListIds(s) == [none |-> FALSE, ids |-> s]

\* Truthiness of an Optional[List]: None and [] are falsy.
Truthy(f) == ~f.none /\ Len(f.ids) > 0

\* collection_id=None
NoCollection == [none |-> TRUE, value |-> ""]

Collection(c) == [none |-> FALSE, value |-> c]

\* Truthiness of an Optional[str]: None and "" are falsy.
TruthyStr(c) == ~c.none /\ c.value # ""

RECURSIVE Flatten(_)
Flatten(ss) == IF ss = <<>> THEN <<>> ELSE Head(ss) \o Flatten(Tail(ss))

RECURSIVE SumSeq(_)
SumSeq(s) == IF s = <<>> THEN 0 ELSE Head(s) + SumSeq(Tail(s))

\* str.lower() on the characters the queries use.
LowerChar(c) ==
    CASE c = "A" -> "a" [] c = "B" -> "b" [] c = "C" -> "c" [] c = "D" -> "d"
      [] c = "E" -> "e" [] c = "F" -> "f" [] c = "G" -> "g" [] c = "H" -> "h"
      [] c = "I" -> "i" [] c = "J" -> "j" [] c = "K" -> "k" [] c = "L" -> "l"
      [] c = "M" -> "m" [] c = "N" -> "n" [] c = "O" -> "o" [] c = "P" -> "p"
      [] c = "Q" -> "q" [] c = "R" -> "r" [] c = "S" -> "s" [] c = "T" -> "t"
      [] c = "U" -> "u" [] c = "V" -> "v" [] c = "W" -> "w" [] c = "X" -> "x"
      [] c = "Y" -> "y" [] c = "Z" -> "z" [] OTHER -> c

Lower(s) == [i \in 1..Len(s) |-> LowerChar(s[i])]

\* Python's `sub in s` on strings.
Contains(sub, s) ==
    \E i \in 0..(Len(s) - Len(sub)) :
        \A j \in 1..Len(sub) : s[i + j] = sub[j]

-----------------------------------------------------------------------------
(* Collaborators *)

\* results = [] and response_full_text = []: no search was made.
NoResponse == [executed |-> FALSE, hits |-> <<>>]

\* The response of the search engine: its hits, each a document id with
\* the inner hits (chunk identities) of that document.
Response(hits) == [executed |-> TRUE, hits |-> hits]

\* Texts of the documents the retriever serves.
DocTexts == {"text of 9000 tokens", "a text of 9001 tokens",
             "the text of 17999 tokens", "one text of 18000 tokens",
             "another text of 18001 tokens"}

\* len(self.tokenizer.tokenize(text)) of the tokenizer collaborator.
NumTokens(text) ==
    CASE text = "text of 9000 tokens" -> 9000
      [] text = "a text of 9001 tokens" -> 9001
      [] text = "the text of 17999 tokens" -> 17999
      [] text = "one text of 18000 tokens" -> 18000
      [] text = "another text of 18001 tokens" -> 18001

-----------------------------------------------------------------------------
(* Chunk records and the document-chunk map *)

\* Faulty variant: text and text_anonymized are taken from each other's
\* position of the identity.
TempChunkSwapped(chunk_id) ==
    [id |-> chunk_id[1],
     text |-> chunk_id[3],
     text_anonymized |-> chunk_id[2],
     metadata |-> [doc_id |-> chunk_id[1], chunk_size |-> Len(chunk_id[3])]]

\* The chunk record built from a chunk identity (doc id, text, anonymized).
TempChunk(chunk_id) ==
    [id |-> chunk_id[1],
     text |-> chunk_id[2],
     text_anonymized |-> chunk_id[3],
     metadata |-> [doc_id |-> chunk_id[1], chunk_size |-> Len(chunk_id[2])]]

\* The id of the i-th document of the index.
DocId(i) == "doc" \o ToString(i)

\* The identity (doc id, text, anonymized text) of chunk c of document d.
ChunkId(d, c) ==
    <<DocId(d), "chunk " \o ToString(c) \o " of doc" \o ToString(d),
      "chunk " \o ToString(c) \o " of [DOC]">>

\* The chunks of documents 1..nd, nc chunks each, document by document.
DocumentMajor(nd, nc) ==
    [p \in 1..(nd * nc) |-> ChunkId(((p - 1) \div nc) + 1, ((p - 1) % nc) + 1)]

\* The same chunks, the first chunk of every document first.
ChunkMajor(nd, nc) ==
    [p \in 1..(nd * nc) |-> ChunkId(((p - 1) % nd) + 1, ((p - 1) \div nd) + 1)]

MapKeys(m) == {m[i].id : i \in 1..Len(m)}

\* doc_chunks_id_map[doc_id]
MapGet(m, doc_id) == (CHOOSE e \in {m[i] : i \in 1..Len(m)} : e.id = doc_id).chunks

-----------------------------------------------------------------------------
(* Fused scores.  A Python float score is modelled by the exact fraction    *)
(* num/den it rounds; fractions are compared by cross-multiplication.       *)

Frac(n, d) == [num |-> n, den |-> d]

FracAdd(a, b) == Frac(a.num * b.den + b.num * a.den, a.den * b.den)

FracGt(a, b) == a.num * b.den > b.num * a.den

FracGeq(a, b) == a.num * b.den >= b.num * a.den

FracEq(a, b) == a.num * b.den = b.num * a.den

Min(a, b) == IF a <= b THEN a ELSE b

\* s[:n]
Take(s, n) == SubSeq(s, 1, Min(n, Len(s)))

Range(s) == {s[i] : i \in DOMAIN s}

\* The elements of s, each once, in the order of their first occurrence:
\* the key order of a dict filled while walking s.
DistinctInOrder(s) ==
    LET F == {i \in 1..Len(s) : \A j \in 1..(i - 1) : s[j] # s[i]}
    IN  [k \in 1..Cardinality(F) |->
            s[CHOOSE i \in F : Cardinality({j \in F : j < i}) = k - 1]]

\* sorted(s, reverse=False) on the keys: ascending.
SortedAsc(s, keys) ==
    LET n == Len(s)
        before(i, j) == \/ FracGt(keys[j], keys[i])
                        \/ (FracEq(keys[i], keys[j]) /\ i < j)
        pos == [j \in 1..n |->
                   Cardinality({i \in 1..n : i # j /\ before(i, j)}) + 1]
    IN  [p \in 1..n |-> s[CHOOSE j \in 1..n : pos[j] = p]]

\* sorted(s, key=..., reverse=True), keys[i] the key of s[i]: descending
\* and stable, elements of equal key keep their order in s.
SortedDesc(s, keys) ==
    LET n == Len(s)
        before(i, j) == \/ FracGt(keys[i], keys[j])
                        \/ (FracEq(keys[i], keys[j]) /\ i < j)
        pos == [j \in 1..n |->
                   Cardinality({i \in 1..n : i # j /\ before(i, j)}) + 1]
    IN  [p \in 1..n |-> s[CHOOSE j \in 1..n : pos[j] = p]]

-----------------------------------------------------------------------------
(* VectorSearch.search: embedding, the two searches and the rank maps *)

\* One collaborator call: the collaborator, the document id it was made for
\* ("" when it is made for the query) and whether it returned.
Call(op, arg, ok) == [op |-> op, arg |-> arg, ok |-> ok]

\* Faulty variant: the exception of a collaborator is swallowed and search
\* goes on to the next stage.
Swallowed(stage) == stage

\* No try/except stands around the collaborator calls of search: an
\* exception leaves search, whatever stage would have come next.
Propagated(stage) == "raised"

\* Faulty variant: `if filter_ids:` in the place of the test for one id.
KnnKAnyIds(f) == IF Truthy(f) THEN 50 ELSE 25

\* knn_k of the request.
KnnK(f) == IF Truthy(f) /\ Len(f.ids) = 1 THEN 50 ELSE 25

\* chunks_to_gather of the request.
ChunksToGather(f) == IF Truthy(f) /\ Len(f.ids) = 1 THEN 40 ELSE 25

\* inner_hits_size of the request.
InnerHitsSize(f) == IF Truthy(f) /\ Len(f.ids) = 1 THEN 50 ELSE 30

\* {"terms": {"id": filter_ids}}
Terms(ids) == [terms |-> [field |-> "id", values |-> ids]]

\* {"term": {"collectionId.keyword": collection_id}}
Term(c) == [term |-> [field |-> "collectionId.keyword", value |-> c]]

\* {"match": {field: query}}
Match(field, q) == [match |-> [field |-> field, query |-> q]]

\* Faulty variant: the entities clause is left out for every method.
should_query_text_only(q, method) == <<Match("chunks.vectors.text", q)>>

\* Lines 307-315: the should clause of the full-text query.
should_query(q, method) ==
    IF method = "hibrid_no_ner"
    THEN <<Match("chunks.vectors.text", q)>>
    ELSE <<Match("chunks.vectors.text", q), Match("chunks.vectors.entities", q)>>

\* Faulty variant: the collection id takes the place of the id filter.
knn_filter_collection_only(ids, c) == IF TruthyStr(c) THEN Term(c.value) ELSE Terms(ids)

\* Lines 341-352: the filter of the filtered vector query.
knn_filter(ids, c) ==
    IF TruthyStr(c)
    THEN [bool |-> [must |-> <<Terms(ids), Term(c.value)>>]]
    ELSE Terms(ids)

\* Lines 333-370: the vector query with document id filters; the query
\* vector is left out.
build_filtered_knn_query(ids, c, k) ==
    [knn |-> [inner_hits |-> [size |-> k],
              field |-> "chunks.vectors.predicted_value",
              k |-> k,
              num_candidates |-> 1000,
              filter |-> knn_filter(ids, c)]]

\* Lines 372-397: the vector query without document id filters.
build_global_knn_query(c, k) ==
    LET knn == [inner_hits |-> [size |-> k],
                field |-> "chunks.vectors.predicted_value",
                k |-> k]
    IN  [source |-> <<"id">>,
         knn |-> IF TruthyStr(c) THEN knn @@ [filter |-> Term(c.value)] ELSE knn]

\* The nested clause of the full-text queries.
Nested(should, size) ==
    [nested |-> [path |-> "chunks.vectors",
                 query |-> [bool |-> [should |-> should]],
                 inner_hits |-> [size |-> size]]]

\* Lines 399-438: the full-text query with document id filters.
build_filtered_fulltext_query(should, ids, c, size) ==
    [source |-> <<"id">>,
     query |-> [bool |-> [filter |-> IF TruthyStr(c)
                                     THEN <<Terms(ids), Term(c.value)>>
                                     ELSE <<Terms(ids)>>,
                          must |-> Nested(should, size)]]]

\* Lines 440-475: the full-text query without document id filters.
build_global_fulltext_query(should, c, size) ==
    IF TruthyStr(c)
    THEN [source |-> <<"id">>,
          query |-> [bool |-> [filter |-> <<Term(c.value)>>,
                               must |-> Nested(should, size)]]]
    ELSE [source |-> <<"id">>, query |-> Nested(should, size)]

\* Lines 295-331: _build_queries, the pair (query_body, query_full_text).
build_queries(q, method, f, c, k, size) ==
    IF Truthy(f)
    THEN <<build_filtered_knn_query(f.ids, c, k),
           build_filtered_fulltext_query(should_query(q, method), f.ids, c, size)>>
    ELSE <<build_global_knn_query(c, k),
           build_global_fulltext_query(should_query(q, method), c, size)>>

\* Lines 122-147: the sizes are set from filter_ids and the queries built.
SetParameters ==
    /\ knn_k' = KnnK(filter_ids)
    /\ chunks_to_gather' = ChunksToGather(filter_ids)
    /\ inner_hits_size' = InnerHitsSize(filter_ids)
    /\ query_body' = build_queries(query, retrieval_method, filter_ids,
                                   collection_id, knn_k', inner_hits_size')[1]
    /\ query_full_text' = build_queries(query, retrieval_method, filter_ids,
                                        collection_id, knn_k', inner_hits_size')[2]

\* Lines 115-147: the query is embedded (the model may raise), the
\* parameters are set from filter_ids and the queries are built.
Encode ==
    /\ pc = "start"
    /\ \/ /\ calls' = Append(calls, Call("encode", "", TRUE))
          /\ pc' = "embedded"
          /\ SetParameters
       \/ /\ calls' = Append(calls, Call("encode", "", FALSE))
          /\ pc' = Propagated("embedded")
          /\ IF pc' = "embedded" THEN SetParameters ELSE UNCHANGED parameters
    /\ UNCHANGED <<request, responses, rank_maps, fusion, doc_chunks_id_map,
                   retrieval, doc_results>>
    /\ UNCHANGED other_endpoints

\* The document ids a list of filter clauses admits, as an Optional[List]:
\* None when no clause is a terms clause on the id.
IdsOf(clauses) ==
    LET T == {i \in DOMAIN clauses : "terms" \in DOMAIN clauses[i]}
    IN  IF T = {} THEN NoneIds
        ELSE ListIds(clauses[CHOOSE i \in T : TRUE].terms.values)

\* The filter clauses a vector query carries: the must list of a bool
\* filter, the single clause, or none.
KnnClauses(body) ==
    IF "filter" \notin DOMAIN body.knn THEN <<>>
    ELSE IF "bool" \in DOMAIN body.knn.filter THEN body.knn.filter.bool.must
    ELSE <<body.knn.filter>>

\* The filter clauses a full-text query carries.
FullTextClauses(body) ==
    IF "bool" \in DOMAIN body.query THEN body.query.bool.filter ELSE <<>>

\* The search engine returns only documents the id filter of the queries
\* admits ({"terms": {"id": filter_ids}}).
HitsRespectFilter(hits, f) ==
    Truthy(f) => \A i \in DOMAIN hits : hits[i].id \in Range(f.ids)

\* A hit: document d with the chunks cs of it as inner hits.
Hit(d, cs) == [id |-> DocId(d), chunks |-> [i \in DOMAIN cs |-> ChunkId(d, cs[i])]]

\* The hit lists the search engine may answer with.
EngineHits ==
    {<<>>,
     <<Hit(1, <<1, 2>>)>>,
     <<Hit(2, <<1>>), Hit(1, <<1>>)>>,
     <<Hit(1, <<2>>), Hit(2, <<1>>), Hit(3, <<1>>)>>,
     <<Hit(1, <<1, 2, 3, 4, 5, 6>>)>>}

\* Faulty variant: `retrieval_method != "full-text"` in the place of the
\* list, over the methods the requests of the model use.
VectorMethodsUnlessFullText == {"full", "dense", "hibrid_no_ner", "sparse", ""}

\* The methods that make the vector search (line 155).
VectorMethods == {"full", "dense", "hibrid_no_ner"}

\* Faulty variant: "hibrid_no_ner" is missing from the list.
FullTextMethodsNoHybrid == {"full", "full-text"}

\* The methods that make the full-text search (line 164).
FullTextMethods == {"full", "hibrid_no_ner", "full-text"}

\* Lines 155-162: the vector search, made for three of the methods; the
\* search engine may raise.
SearchVector ==
    /\ pc = "embedded"
    /\ IF retrieval_method \in VectorMethods
       THEN \/ /\ \E hits \in EngineHits :
                    /\ HitsRespectFilter(hits, IdsOf(KnnClauses(query_body)))
                    /\ results' = Response(hits)
               /\ calls' = Append(calls, Call("search_vector", "", TRUE))
               /\ pc' = "vector_searched"
            \/ /\ calls' = Append(calls, Call("search_vector", "", FALSE))
               /\ pc' = Propagated("vector_searched")
               /\ UNCHANGED results
       ELSE /\ pc' = "vector_searched"
            /\ UNCHANGED <<results, calls>>
    /\ UNCHANGED <<request, parameters, response_full_text, rank_maps,
                   fusion, doc_chunks_id_map, retrieval, doc_results>>
    /\ UNCHANGED other_endpoints

\* Lines 164-175: the full-text search, made for three of the methods.
SearchFullText ==
    /\ pc = "vector_searched"
    /\ IF retrieval_method \in FullTextMethods
       THEN \/ /\ \E hits \in EngineHits :
                    /\ HitsRespectFilter(hits, IdsOf(FullTextClauses(query_full_text)))
                    /\ response_full_text' = Response(hits)
               /\ calls' = Append(calls, Call("search_full_text", "", TRUE))
               /\ pc' = "searched"
            \/ /\ calls' = Append(calls, Call("search_full_text", "", FALSE))
               /\ pc' = Propagated("searched")
               /\ UNCHANGED response_full_text
       ELSE /\ pc' = "searched"
            /\ UNCHANGED <<response_full_text, calls>>
    /\ UNCHANGED <<request, parameters, results, rank_maps, fusion,
                   doc_chunks_id_map, retrieval, doc_results>>
    /\ UNCHANGED other_endpoints

\* The rank map of a search whose chunks came back in the order of hits:
\* ranks 1, 2, 3, ... across all chunks of the response.
RankMapOf(hits) == [c \in Range(hits) |-> CHOOSE p \in DOMAIN hits : hits[p] = c]

\* collect_chunk_ranks_fn and collect_chunk_ranks_full_text_fn: the hits and
\* their inner hits are walked in the order of the response.
collect_chunk_ranks(response) ==
    RankMapOf(Flatten([i \in DOMAIN response.hits |-> response.hits[i].chunks]))

\* Lines 180-187: a rank map is collected from a response that was made
\* (len(results) > 0), else it is {}.
CollectRanks ==
    /\ pc = "searched"
    /\ vector_ranks' =
        IF results.executed THEN collect_chunk_ranks(results) ELSE <<>>
    /\ full_text_ranks' =
        IF response_full_text.executed
        THEN collect_chunk_ranks(response_full_text) ELSE <<>>
    /\ pc' = "ranked"
    /\ UNCHANGED <<request, parameters, responses, fusion,
                   doc_chunks_id_map, retrieval, doc_results, calls>>
    /\ UNCHANGED other_endpoints

-----------------------------------------------------------------------------
(* VectorSearch.search: Reciprocal Rank Fusion *)

\* float("inf"), the rank of a chunk a rank map does not hold.
Inf == -1

\* rrf_k of the request.
RrfK(f) == IF Truthy(f) /\ Len(f.ids) = 1 THEN 50 ELSE 30

\* Faulty variant: ranks.get(chunk_id, 0).
RankGetZero(ranks, chunk_id) ==
    IF chunk_id \in DOMAIN ranks THEN ranks[chunk_id] ELSE 0

\* ranks.get(chunk_id, float("inf"))
RankGet(ranks, chunk_id) ==
    IF chunk_id \in DOMAIN ranks THEN ranks[chunk_id] ELSE Inf

\* 1 / (rrf_k + rank): rrf_k + inf is inf and 1 / inf is 0.0.
Reciprocal(k, rank) == IF rank = Inf THEN Frac(0, 1) ELSE Frac(1, k + rank)

\* Faulty variant: rank / (rrf_k + rank) in the place of 1 / (rrf_k + rank).
rrf_score_rank_over(k, rank_vector, rank_full_text) ==
    FracAdd(IF rank_vector = Inf THEN Frac(0, 1)
            ELSE Frac(rank_vector, k + rank_vector),
            IF rank_full_text = Inf THEN Frac(0, 1)
            ELSE Frac(rank_full_text, k + rank_full_text))

\* (1 / (rrf_k + rank_vector)) + (1 / (rrf_k + rank_full_text))
rrf_score(k, rank_vector, rank_full_text) ==
    FracAdd(Reciprocal(k, rank_vector), Reciprocal(k, rank_full_text))

\* Faulty variant: the union with full_text_ranks.keys() is missing.
all_chunk_ids_vector_only(v_ranks, ft_ranks) == DOMAIN v_ranks

\* set(vector_ranks.keys()).union(full_text_ranks.keys())
all_chunk_ids(v_ranks, ft_ranks) == DOMAIN v_ranks \cup DOMAIN ft_ranks

CombinedScores(k, v_ranks, ft_ranks) ==
    [chunk_id \in all_chunk_ids(v_ranks, ft_ranks) |->
        rrf_score(k, RankGet(v_ranks, chunk_id), RankGet(ft_ranks, chunk_id))]

ItemScore(item) == item[2]

\* Faulty variant: reverse=True is missing.
FinalRankingAscending(items) ==
    SortedAsc(items, [i \in DOMAIN items |-> ItemScore(items[i])])

\* sorted(combined_scores.items(), key=lambda x: x[1], reverse=True)
FinalRanking(items) ==
    SortedDesc(items, [i \in DOMAIN items |-> ItemScore(items[i])])

\* Largest set whose every iteration order is explored; a larger set is
\* iterated in the canonical order and in its reverse.
MaxPermuted == 3

\* All orderings of the finite set S.
Orderings(S) ==
    {p \in [1..Cardinality(S) -> S] : \A c \in S : \E i \in DOMAIN p : p[i] = c}

Reverse(s) == [i \in 1..Len(s) |-> s[Len(s) + 1 - i]]

\* The orders in which Python may iterate the set S of chunk identities:
\* the order depends on the hashes of the strings, which vary between runs.
\* canon is a sequence that holds every element of S.
IterOrders(S, canon) ==
    IF Cardinality(S) <= MaxPermuted THEN Orderings(S)
    ELSE LET InS(c) == c \in S
             asc == SelectSeq(canon, InS)
         IN  {asc, Reverse(asc)}

\* The order of the chunk identities the iteration orders are drawn around.
CanonicalOrder ==
    DocumentMajor(MaxGridDocs,
                  IF MaxSingleChunks > MaxGridChunks
                  THEN MaxSingleChunks ELSE MaxGridChunks)

\* Lines 189-203: the fused scores and the final ranking.
Fuse ==
    /\ pc = "ranked"
    /\ rrf_k' = RrfK(filter_ids)
    /\ combined_scores' = CombinedScores(rrf_k', vector_ranks, full_text_ranks)
    /\ \E order \in IterOrders(DOMAIN combined_scores', CanonicalOrder) :
        final_ranking' =
            FinalRanking([i \in DOMAIN order |->
                             <<order[i], combined_scores'[order[i]]>>])
    /\ pc' = "fused"
    /\ UNCHANGED <<request, parameters, responses, rank_maps,
                   doc_chunks_id_map, retrieval, doc_results, calls>>
    /\ UNCHANGED other_endpoints

-----------------------------------------------------------------------------
(* VectorSearch.search: the chunk selector *)

max_docs == 5

max_chunks_per_doc == 5

\* The dict doc id -> chunk records filled while walking chunk_ids.
BuildMap(chunk_ids) ==
    LET docs == DistinctInOrder([i \in DOMAIN chunk_ids |-> chunk_ids[i][1]])
    IN  [k \in 1..Len(docs) |->
            [id |-> docs[k],
             chunks |->
                LET OfDoc(c) == c[1] = docs[k]
                    own == SelectSeq(chunk_ids, OfDoc)
                IN  [i \in DOMAIN own |-> TempChunk(own[i])]]]

\* Faulty variant: the slice [:chunks_to_gather] is missing.
SelectSingleNoSlice(ranking, budget) ==
    BuildMap([i \in DOMAIN ranking |-> ranking[i][1]])

\* Single document mode: the top chunks_to_gather entries, grouped.
SelectSingle(ranking, budget) ==
    LET top == Take(ranking, budget)
    IN  BuildMap([i \in DOMAIN top |-> top[i][1]])

\* doc_chunk_scores: doc id -> its (score, chunk_id) pairs, ranking order.
DocChunkScores(ranking) ==
    LET docs == DistinctInOrder([i \in DOMAIN ranking |-> ranking[i][1][1]])
    IN  [k \in 1..Len(docs) |->
            [id |-> docs[k],
             chunks |->
                LET OfDoc(item) == item[1][1] = docs[k]
                    own == SelectSeq(ranking, OfDoc)
                IN  [i \in DOMAIN own |-> <<own[i][2], own[i][1]>>]]]

PairScore(pair) == pair[1]

\* max(s for s, _ in x[1])
MaxScore(entry) ==
    LET S == Range(entry.chunks)
    IN  PairScore(CHOOSE x \in S : \A y \in S : FracGeq(PairScore(x), PairScore(y)))

\* Documents by their highest chunk score.
SortedDocs(doc_chunk_scores) ==
    SortedDesc(doc_chunk_scores,
               [i \in DOMAIN doc_chunk_scores |-> MaxScore(doc_chunk_scores[i])])

\* Faulty variant: sorted_docs[-max_docs:], the last documents.
TopDocsLast(sorted_docs) ==
    SubSeq(sorted_docs,
           IF Len(sorted_docs) > max_docs THEN Len(sorted_docs) - max_docs + 1 ELSE 1,
           Len(sorted_docs))

\* sorted_docs[:max_docs]
TopDocs(sorted_docs) == Take(sorted_docs, max_docs)

\* Faulty variant: the slice [:max_chunks_per_doc] is missing.
TopChunksAll(chunks) ==
    SortedDesc(chunks, [i \in DOMAIN chunks |-> PairScore(chunks[i])])

\* sorted(chunks, key=lambda x: x[0], reverse=True)[:max_chunks_per_doc]
TopChunks(chunks) ==
    Take(SortedDesc(chunks, [i \in DOMAIN chunks |-> PairScore(chunks[i])]),
         max_chunks_per_doc)

\* selected_chunks: the top chunks of the top documents.
SelectedChunksOf(ranking) ==
    LET docs == TopDocs(SortedDocs(DocChunkScores(ranking)))
    IN  Flatten([k \in DOMAIN docs |-> TopChunks(docs[k].chunks)])

\* Multi document mode: diversify across documents.
SelectMulti(ranking) ==
    LET selected_chunks == SelectedChunksOf(ranking)
    IN  BuildMap([i \in DOMAIN selected_chunks |-> selected_chunks[i][2]])

\* Faulty variant: any non-empty id list selects as for a single document.
SelectsSingleAnyIds(f) == Truthy(f)

\* Line 209: the test of the single document branch of the selection.
SelectsSingle(f) == Truthy(f) /\ Len(f.ids) = 1

\* Lines 209-266: gather the top chunks into doc_chunks_id_map.
Select ==
    /\ pc = "fused"
    /\ doc_chunks_id_map' =
        IF SelectsSingle(filter_ids)
        THEN SelectSingle(final_ranking, chunks_to_gather)
        ELSE SelectMulti(final_ranking)
    /\ pc' = "selected"
    /\ UNCHANGED <<request, parameters, responses, rank_maps, fusion,
                   retrieval, doc_results, calls>>
    /\ UNCHANGED other_endpoints


-----------------------------------------------------------------------------
(* VectorSearch._prepare_results *)

\* The context-length budget of the policy.
TokenLimit == 18000

Estrai == <<"e", "s", "t", "r", "a", "i">>
Riassumi == <<"r", "i", "a", "s", "s", "u", "m", "i">>

full_docs_keywords == {Estrai, Riassumi}

\* Faulty variant: the keyword test is missing.
full_docs_flag_always(q) == TRUE

full_docs_flag(q) == \E keyword \in full_docs_keywords : Contains(keyword, Lower(q))

\* Faulty variant: the loop runs over the keys of doc_chunks_id_map, not
\* over the retrieved documents.
ChunkRecordsOverMap(docs, map) ==
    [i \in 1..Len(map) |->
        [doc |-> [id |-> map[i].id], chunks |-> map[i].chunks,
         full_docs |-> FALSE]]

\* One record per retrieved document, carrying its selected chunks.
ChunkRecords(docs, map) ==
    [i \in 1..Len(docs) |->
        [doc |-> docs[i], chunks |-> MapGet(map, docs[i].id), full_docs |-> FALSE]]

\* The single-target branch is taken.
SingleTargetShort(f, docs) ==
    /\ Truthy(f) /\ Len(f.ids) = 1 /\ Len(docs) > 0
    /\ NumTokens(docs[1].text) < TokenLimit

SingleTargetRecords(docs, map) ==
    <<[full_docs |-> FALSE, doc |-> docs[1], chunks |-> MapGet(map, docs[1].id)]>>

token_count(docs) == SumSeq([i \in 1..Len(docs) |-> NumTokens(docs[i].text)])

\* Faulty variant: token_count < 18000.
WithinTokenBudgetStrict(docs) == token_count(docs) < TokenLimit

\* Faulty variant: every document is within the limit, not their sum.
WithinTokenBudgetEach(docs) ==
    \A i \in 1..Len(docs) : NumTokens(docs[i].text) <= TokenLimit

WithinTokenBudget(docs) == token_count(docs) <= TokenLimit

\* One record per retrieved document, carrying its whole text.
FullDocRecords(docs) ==
    [i \in 1..Len(docs) |->
        [full_docs |-> TRUE,
         doc |-> docs[i],
         chunks |-> <<[id |-> docs[i].id,
                       text |-> docs[i].text,
                       metadata |-> [doc_id |-> docs[i].id,
                                     chunk_size |-> Len(docs[i].text)]]>>]]

\* Faulty variant: the keyword branch stands before the force_rag branch.
prepare_results_keyword_first(docs, map, q, f, force) ==
    IF full_docs_flag(q) /\ WithinTokenBudget(docs) THEN FullDocRecords(docs)
    ELSE IF force THEN ChunkRecords(docs, map)
    ELSE IF SingleTargetShort(f, docs) THEN SingleTargetRecords(docs, map)
    ELSE ChunkRecords(docs, map)

\* Faulty variant: the keyword branch stands before the single-target one.
prepare_results_keyword_second(docs, map, q, f, force) ==
    IF force THEN ChunkRecords(docs, map)
    ELSE IF full_docs_flag(q) /\ WithinTokenBudget(docs) THEN FullDocRecords(docs)
    ELSE IF SingleTargetShort(f, docs) THEN SingleTargetRecords(docs, map)
    ELSE ChunkRecords(docs, map)

\* The branches of _prepare_results, in the order of the code.
prepare_results(docs, map, q, f, force) ==
    IF force THEN ChunkRecords(docs, map)
    ELSE IF SingleTargetShort(f, docs) THEN SingleTargetRecords(docs, map)
    ELSE IF full_docs_flag(q) /\ WithinTokenBudget(docs) THEN FullDocRecords(docs)
    ELSE ChunkRecords(docs, map)

\* The calls of the tokenizer _prepare_results makes: none under force_rag,
\* one for the first document in the single-target test, one per document
\* in the keyword branch.
TokenizerCalls(docs, q, f, force) ==
    LET first == IF Truthy(f) /\ Len(f.ids) = 1 /\ Len(docs) > 0
                 THEN <<Call("tokenize", docs[1].id, TRUE)>> ELSE <<>>
        every == IF full_docs_flag(q)
                 THEN [i \in 1..Len(docs) |-> Call("tokenize", docs[i].id, TRUE)]
                 ELSE <<>>
    IN  IF force THEN <<>>
        ELSE IF SingleTargetShort(f, docs) THEN first
        ELSE first \o every

\* What the retriever may answer: an error or a document with a text.
RetrieverAnswers == {"error", "text of 9000 tokens", "another text of 18001 tokens"}

\* Faulty variant: one entry per selected chunk, not per document.
doc_ids_per_chunk(map) ==
    Flatten([i \in 1..Len(map) |-> [c \in DOMAIN map[i].chunks |-> map[i].id]])

\* list(doc_chunks_id_map.keys())
doc_ids(map) == [i \in 1..Len(map) |-> map[i].id]

\* Faulty variant: an error empties the list of retrieved documents.
AfterRetrieveDropAll(docs, doc_id, d) ==
    IF d = "error" THEN <<>> ELSE Append(docs, [id |-> doc_id, text |-> d])

\* Faulty variant: a retrieved document is put in front of the list.
AfterRetrievePrepend(docs, doc_id, d) ==
    IF d = "error" THEN docs ELSE <<[id |-> doc_id, text |-> d]>> \o docs

\* Lines 280-284: an answer that holds "error" is skipped, any other is
\* appended to full_docs.
AfterRetrieve(docs, doc_id, d) ==
    IF d = "error" THEN docs ELSE Append(docs, [id |-> doc_id, text |-> d])

\* Lines 277-284: one turn of the retriever loop; a document whose
\* retrieval failed is skipped.
Retrieve ==
    /\ pc = "selected"
    /\ retrieved < Len(doc_ids(doc_chunks_id_map))
    /\ retrieved' = retrieved + 1
    /\ LET doc_id == doc_ids(doc_chunks_id_map)[retrieved']
       IN  \E d \in RetrieverAnswers :
            /\ full_docs' = AfterRetrieve(full_docs, doc_id, d)
            /\ calls' = Append(calls, Call("retrieve", doc_id, d # "error"))
    /\ UNCHANGED <<pc, request, parameters, responses, rank_maps, fusion,
                   doc_chunks_id_map, doc_results>>
    /\ UNCHANGED other_endpoints

\* Lines 286-293: the retriever loop is over, search returns the result of
\* _prepare_results.
PrepareResults ==
    /\ pc = "selected"
    /\ retrieved = Len(doc_ids(doc_chunks_id_map))
    /\ doc_results' = prepare_results(full_docs, doc_chunks_id_map, query,
                                      filter_ids, force_rag)
    /\ calls' = calls \o TokenizerCalls(full_docs, query, filter_ids, force_rag)
    /\ pc' = "done"
    /\ UNCHANGED <<request, parameters, responses, rank_maps, fusion,
                   doc_chunks_id_map, retrieval>>
    /\ UNCHANGED other_endpoints

-----------------------------------------------------------------------------
(* One request, from the call of search to its return *)

\* "Estrai i nomi"
QueryEstrai == <<"E", "s", "t", "r", "a", "i", " ", "i", " ", "n", "o", "m", "i">>

\* "fai un RIASSUMI"
QueryRiassumi ==
    <<"f", "a", "i", " ", "u", "n", " ", "R", "I", "A", "S", "S", "U", "M", "I">>

\* "riassunto estra": no keyword is a substring of it
QueryNearMiss ==
    <<"r", "i", "a", "s", "s", "u", "n", "t", "o", " ", "e", "s", "t", "r", "a">>

\* "verdict?"
QueryVerdict == <<"v", "e", "r", "d", "i", "c", "t", "?">>

Queries == {QueryEstrai, QueryRiassumi, QueryNearMiss, QueryVerdict}

RetrievalMethods == {"full", "dense", "full-text", "hibrid_no_ner", "sparse", ""}

RequestFilters ==
    {NoneIds, ListIds(<<>>), ListIds(<<DocId(1)>>), ListIds(<<DocId(1), DocId(2)>>)}

Init ==
    /\ pc = "start"
    /\ query \in {QueryEstrai, QueryVerdict}
    /\ filter_ids \in RequestFilters
    /\ force_rag \in BOOLEAN
    /\ retrieval_method \in RetrievalMethods
    /\ collection_id \in {NoCollection, Collection(""), Collection("c1")}
    /\ query_body = <<>>
    /\ query_full_text = <<>>
    /\ knn_k = 0
    /\ chunks_to_gather = 0
    /\ inner_hits_size = 0
    /\ results = NoResponse
    /\ response_full_text = NoResponse
    /\ vector_ranks = <<>>
    /\ full_text_ranks = <<>>
    /\ rrf_k = 0
    /\ combined_scores = <<>>
    /\ final_ranking = <<>>
    /\ doc_chunks_id_map = <<>>
    /\ retrieved = 0
    /\ full_docs = <<>>
    /\ doc_results = <<>>
    /\ calls = <<>>
    /\ OtherEndpointsAtRest

Next ==
    \/ Encode
    \/ SearchVector
    \/ SearchFullText
    \/ CollectRanks
    \/ Fuse
    \/ Select
    \/ Retrieve
    \/ PrepareResults

Spec == Init /\ [][Next]_vars

-----------------------------------------------------------------------------
(* The policy applied to drawn arguments *)

\* A document-chunk map of n documents; document i holds i selected chunks.
PolicyMap(n) ==
    [d \in 1..n |-> [id |-> DocId(d),
                     chunks |-> [c \in 1..d |-> TempChunk(ChunkId(d, c))]]]

\* What the retriever loop leaves of the map's documents: the documents whose
\* retrieval succeeded (got[d] is the served text, "error" a failed call).
RECURSIVE Retrieved(_, _, _)
Retrieved(got, d, n) ==
    IF d > n THEN <<>>
    ELSE IF got[d] = "error" THEN Retrieved(got, d + 1, n)
    ELSE <<[id |-> DocId(d), text |-> got[d]]>> \o Retrieved(got, d + 1, n)

\* The calls of a request of method "full" up to the end of its searches.
SearchCalls ==
    <<Call("encode", "", TRUE), Call("search_vector", "", TRUE),
      Call("search_full_text", "", TRUE)>>

PolicyFilters ==
    {NoneIds, ListIds(<<>>), ListIds(<<DocId(1)>>), ListIds(<<DocId(2)>>),
     ListIds(<<DocId(1), DocId(2)>>)}

\* The state in which search calls _prepare_results, for drawn arguments;
\* what led to the document-chunk map is left out.
InitPolicy ==
    /\ pc = "selected"
    /\ query \in Queries
    /\ filter_ids \in PolicyFilters
    /\ force_rag \in BOOLEAN
    /\ retrieval_method = "full"
    /\ \E n \in 0..MaxPolicyDocs :
        /\ doc_chunks_id_map = PolicyMap(n)
        /\ retrieved = n
        /\ \E got \in [1..n -> DocTexts \cup {"error"}] :
            /\ full_docs = Retrieved(got, 1, n)
            /\ calls = SearchCalls \o
                    [d \in 1..n |-> Call("retrieve", DocId(d), got[d] # "error")]
    /\ results = NoResponse
    /\ response_full_text = NoResponse
    /\ vector_ranks = <<>>
    /\ full_text_ranks = <<>>
    /\ rrf_k = RrfK(filter_ids)
    /\ knn_k = KnnK(filter_ids)
    /\ chunks_to_gather = ChunksToGather(filter_ids)
    /\ inner_hits_size = InnerHitsSize(filter_ids)
    /\ combined_scores = <<>>
    /\ final_ranking = <<>>
    /\ doc_results = <<>>
    /\ OtherEndpointsAtRest
    /\ collection_id = NoCollection
    /\ query_body = build_queries(query, retrieval_method, filter_ids,
                                  collection_id, knn_k, inner_hits_size)[1]
    /\ query_full_text = build_queries(query, retrieval_method, filter_ids,
                                       collection_id, knn_k, inner_hits_size)[2]

NextPolicy == PrepareResults

SpecPolicy == InitPolicy /\ [][NextPolicy]_vars

-----------------------------------------------------------------------------
(* Fusion and selection applied to drawn rank maps *)

SmallChunks == {ChunkId(1, 1), ChunkId(1, 2), ChunkId(2, 1)}

\* Every rank map over a subset of SmallChunks.
SmallRankMaps ==
    UNION {{RankMapOf(hits) : hits \in Orderings(S)} : S \in SUBSET SmallChunks}

\* Rank maps over one or many documents of one or many chunks, ranked
\* document by document, chunk position by chunk position, or in reverse.
GridRankMaps ==
    UNION {{RankMapOf(DocumentMajor(nd, nc)),
            RankMapOf(ChunkMajor(nd, nc)),
            RankMapOf(Reverse(DocumentMajor(nd, nc)))} :
           nd \in {1, MaxGridDocs}, nc \in {1, MaxGridChunks}}

RankMaps == SmallRankMaps \cup GridRankMaps

\* The search engine returns only documents the id filter of the queries
\* admits ({"terms": {"id": filter_ids}}).
RespectsFilter(ranks, f) ==
    Truthy(f) => \A c \in DOMAIN ranks : c[1] \in Range(f.ids)

\* None, one id, two ids; the empty list is a request of Spec.
FusionFilters ==
    {NoneIds, ListIds(<<DocId(1)>>), ListIds(<<DocId(1), DocId(2)>>)}

\* The state in which search starts the fusion, for drawn rank maps; the
\* responses the rank maps were collected from are left out.
InitFusion ==
    /\ pc = "ranked"
    /\ query = QueryVerdict
    /\ force_rag = FALSE
    /\ retrieval_method = "full"
    /\ filter_ids \in FusionFilters
    /\ results = NoResponse
    /\ response_full_text = NoResponse
    /\ retrieved = 0
    /\ knn_k = KnnK(filter_ids)
    /\ chunks_to_gather = ChunksToGather(filter_ids)
    /\ inner_hits_size = InnerHitsSize(filter_ids)
    /\ vector_ranks \in {r \in RankMaps : RespectsFilter(r, filter_ids)}
    /\ full_text_ranks \in {r \in RankMaps : RespectsFilter(r, filter_ids)}
    /\ rrf_k = 0
    /\ combined_scores = <<>>
    /\ final_ranking = <<>>
    /\ doc_chunks_id_map = <<>>
    /\ full_docs = <<>>
    /\ doc_results = <<>>
    /\ calls = SearchCalls
    /\ OtherEndpointsAtRest
    /\ collection_id = NoCollection
    /\ query_body = build_queries(query, retrieval_method, filter_ids,
                                  collection_id, knn_k, inner_hits_size)[1]
    /\ query_full_text = build_queries(query, retrieval_method, filter_ids,
                                       collection_id, knn_k, inner_hits_size)[2]

NextFusion == Fuse \/ Select

SpecFusion == InitFusion /\ [][NextFusion]_vars

-----------------------------------------------------------------------------
(* Fusion and selection in single document mode, applied to drawn rank    *)
(* maps of the target document                                            *)

\* Chunks first..last of the target document, in order.
TargetChunks(first, last) ==
    SubSeq(DocumentMajor(1, MaxSingleChunks), first, last)

\* Rank maps of the target document: none, one, as many chunks as the
\* budget of the mode, more, and the later half only; ranked in the order
\* of the document or in reverse.
SingleRankMaps ==
    {<<>>}
    \cup UNION {{RankMapOf(TargetChunks(r[1], r[2])),
                 RankMapOf(Reverse(TargetChunks(r[1], r[2])))} :
                r \in {<<1, 1>>, <<1, MaxSingleChunks - 1>>,
                       <<1, MaxSingleChunks>>, <<2, MaxSingleChunks>>,
                       <<MaxSingleChunks \div 2, MaxSingleChunks>>}}

\* The state in which search starts the fusion of a request for the one
\* document DocId(1).
InitSingle ==
    /\ pc = "ranked"
    /\ query = QueryVerdict
    /\ force_rag = FALSE
    /\ retrieval_method = "full"
    /\ filter_ids = ListIds(<<DocId(1)>>)
    /\ results = NoResponse
    /\ response_full_text = NoResponse
    /\ retrieved = 0
    /\ knn_k = KnnK(filter_ids)
    /\ chunks_to_gather = ChunksToGather(filter_ids)
    /\ inner_hits_size = InnerHitsSize(filter_ids)
    /\ vector_ranks \in SingleRankMaps
    /\ full_text_ranks \in SingleRankMaps
    /\ rrf_k = 0
    /\ combined_scores = <<>>
    /\ final_ranking = <<>>
    /\ doc_chunks_id_map = <<>>
    /\ full_docs = <<>>
    /\ doc_results = <<>>
    /\ calls = SearchCalls
    /\ OtherEndpointsAtRest
    /\ collection_id = NoCollection
    /\ query_body = build_queries(query, retrieval_method, filter_ids,
                                  collection_id, knn_k, inner_hits_size)[1]
    /\ query_full_text = build_queries(query, retrieval_method, filter_ids,
                                       collection_id, knn_k, inner_hits_size)[2]

NextSingle == Fuse \/ Select

SpecSingle == InitSingle /\ [][NextSingle]_vars

-----------------------------------------------------------------------------
(* The admission gate of the text-generation service                       *)
(* (backend/text-generation/src/app.py): the handlers of /generate and     *)
(* /generate-test around the module-level asyncio.Semaphore(1)             *)

\* No request of VectorSearch.search is under way.
SearchAtRest ==
    /\ pc = "no request"
    /\ query = <<>>
    /\ filter_ids = NoneIds
    /\ force_rag = FALSE
    /\ retrieval_method = "full"
    /\ collection_id = NoCollection
    /\ query_body = <<>>
    /\ query_full_text = <<>>
    /\ knn_k = 0
    /\ chunks_to_gather = 0
    /\ inner_hits_size = 0
    /\ results = NoResponse
    /\ response_full_text = NoResponse
    /\ vector_ranks = <<>>
    /\ full_text_ranks = <<>>
    /\ rrf_k = 0
    /\ combined_scores = <<>>
    /\ final_ranking = <<>>
    /\ doc_chunks_id_map = <<>>
    /\ retrieved = 0
    /\ full_docs = <<>>
    /\ doc_results = <<>>
    /\ calls = <<>>

\* The routes that pass the gate.
Endpoints == {"generate", "generate-test"}

\* The sequence s without its element x.
Without(s, x) ==
    LET Other(y) == y # x
    IN  SelectSeq(s, Other)

\* A request reaches its handler and enters the acquire loop.
Arrive(r) ==
    /\ gpc[r] = "idle"
    /\ \E e \in Endpoints : endpoint' = [endpoint EXCEPT ![r] = e]
    /\ gpc' = [gpc EXCEPT ![r] = "acquiring"]
    /\ attempts' = [attempts EXCEPT ![r] = 0]
    /\ UNCHANGED <<sem_value, waiters, holds, search_vars, facets, concurrent>>

\* Lines 94 and 130: semaphore.acquire() takes a free permit at once, or
\* queues the request as a waiter.
Acquire(r) ==
    /\ gpc[r] = "acquiring"
    /\ IF sem_value > 0
       THEN /\ sem_value' = sem_value - 1
            /\ holds' = [holds EXCEPT ![r] = @ + 1]
            /\ gpc' = [gpc EXCEPT ![r] = "admitted"]
            /\ UNCHANGED waiters
       ELSE /\ waiters' = Append(waiters, r)
            /\ gpc' = [gpc EXCEPT ![r] = "waiting"]
            /\ UNCHANGED <<sem_value, holds>>
    /\ attempts' = [attempts EXCEPT ![r] = Min(@ + 1, MaxAttemptsCounted)]
    /\ UNCHANGED <<endpoint, search_vars, facets, concurrent>>

\* The first waiter is woken by a release and takes the permit within the
\* 0.1 s of its wait_for.
Wake(r) ==
    /\ gpc[r] = "waiting"
    /\ sem_value > 0
    /\ waiters # <<>> /\ Head(waiters) = r
    /\ sem_value' = sem_value - 1
    /\ waiters' = Tail(waiters)
    /\ holds' = [holds EXCEPT ![r] = @ + 1]
    /\ gpc' = [gpc EXCEPT ![r] = "admitted"]
    /\ UNCHANGED <<endpoint, attempts, search_vars, facets, concurrent>>

\* Lines 96-98 and 132-134: wait_for times out after 0.1 s, the acquire is
\* cancelled and the handler goes to sleep for 1 s.
Timeout(r) ==
    /\ gpc[r] = "waiting"
    /\ waiters' = Without(waiters, r)
    /\ gpc' = [gpc EXCEPT ![r] = "sleeping"]
    /\ UNCHANGED <<sem_value, endpoint, holds, attempts, search_vars, facets, concurrent>>

\* Line 98: the sleep is over and the loop tries again.
SleepOver(r) ==
    /\ gpc[r] = "sleeping"
    /\ gpc' = [gpc EXCEPT ![r] = "acquiring"]
    /\ UNCHANGED <<sem_value, waiters, endpoint, holds, attempts, search_vars, facets, concurrent>>

\* What the try block of a handler may end with.
Outcomes(e) ==
    IF e = "generate" THEN {"streaming response", "exception"}
    ELSE {"response"}

\* Faulty variant: the release stands at the end of the try block, not in
\* a finally clause.
ReleasesWithoutFinally(outcome) == IF outcome = "exception" THEN 0 ELSE 1

\* Faulty variant: the release of a streamed response is left to the end
\* of the stream, which never makes it.
ReleasesUnlessStreamed(outcome) == IF outcome = "streaming response" THEN 0 ELSE 1

\* Lines 121-122 and 143-144: finally: semaphore.release(), whatever the
\* try block ended with.
Releases(outcome) == 1

\* The position of a request whose handler returned: a StreamingResponse
\* is still to be sent, any other response ends the request.
AfterHandler(outcome) ==
    IF outcome = "streaming response" THEN "responding" ELSE "idle"

\* Lines 100-122 and 136-144: the body of the handler, which awaits
\* nothing: the chat model is built and the messages are prepared, the
\* handler returns a response (an exception is caught and reported as
\* one), and the permit is released.
Run(r) ==
    /\ gpc[r] = "admitted"
    /\ \E outcome \in Outcomes(endpoint[r]) :
        /\ gpc' = [gpc EXCEPT ![r] = AfterHandler(outcome)]
        /\ sem_value' = sem_value + Releases(outcome)
        /\ holds' = [holds EXCEPT ![r] = @ - Releases(outcome)]
    /\ attempts' = [attempts EXCEPT ![r] = 0]
    /\ UNCHANGED <<waiters, endpoint, search_vars, facets, concurrent>>

\* Lines 68-69: the server starts to send the StreamingResponse and
\* stream_resp calls llm.stream(messages).
StreamStart(r) ==
    /\ gpc[r] = "responding"
    /\ gpc' = [gpc EXCEPT ![r] = "streaming"]
    /\ UNCHANGED <<sem_value, waiters, endpoint, holds, attempts, search_vars, facets, concurrent>>

\* Lines 70-71: the last chunk of the stream was sent.
StreamEnd(r) ==
    /\ gpc[r] = "streaming"
    /\ gpc' = [gpc EXCEPT ![r] = "idle"]
    /\ UNCHANGED <<sem_value, waiters, endpoint, holds, attempts, search_vars, facets, concurrent>>

InitGate == SearchAtRest /\ GateAtRest /\ FacetsAtRest /\ ConcurrentAtRest

NextGate ==
    \E r \in Requests :
        \/ Arrive(r)
        \/ Acquire(r)
        \/ Wake(r)
        \/ Timeout(r)
        \/ SleepOver(r)
        \/ Run(r)
        \/ StreamStart(r)
        \/ StreamEnd(r)

SpecGate == InitGate /\ [][NextGate]_vars

\* The event loop runs every handler that can go on, timers fire, and a
\* waiter that can take the permit again and again does take it.
GateFairness ==
    \A r \in Requests :
        /\ WF_vars(Acquire(r))
        /\ SF_vars(Wake(r))
        /\ WF_vars(Timeout(r))
        /\ WF_vars(SleepOver(r))
        /\ WF_vars(Run(r))
        /\ WF_vars(StreamStart(r))
        /\ WF_vars(StreamEnd(r))

SpecGateFair == InitGate /\ [][NextGate]_vars /\ GateFairness

-----------------------------------------------------------------------------
(* query_elastic_index of the qavectorizer service: one request of the     *)
(* faceted index query, from the call of the handler to its return         *)

\* metadata: list = None, annotations: list = None
NoList == [none |-> TRUE, items |-> <<>>]

List(items) == [none |-> FALSE, items |-> items]

\* {"query_string": {"query": text, "default_field": "text"}}
QueryString(text) == [query_string |-> [query |-> text, default_field |-> "text"]]

\* {"match_all": {}}
MatchAll == [match_all |-> <<>>]

\* {"term": {field: value}}
TermOn(field, value) == [term |-> [field |-> field, value |-> value]]

\* {"match_phrase": {field: value}}
MatchPhrase(field, value) == [match_phrase |-> [field |-> field, query |-> value]]

\* Lines 994-1004: the collection filter of the main query.
collection_filter(c) ==
    [bool |-> [should |-> <<TermOn("collectionId.keyword", c),
                            MatchPhrase("collectionId", c)>>,
               minimum_should_match |-> 1]]

\* Lines 1008-1046: the nested clause of an annotation or a metadata item.
NestedItem(path, id_field, item) ==
    [nested |-> [path |-> path,
                 query |-> [bool |-> [must |-> <<TermOn(id_field, item.value),
                                                 TermOn(path \o ".type", item.type)>>]]]]

\* req.text and req.text.strip(), over the texts of the model.
TextGiven(text) == text \notin {"", " "}

\* The clauses of the items of an optional list, none for None and [].
ItemClauses(list, path, id_field) ==
    IF list.none THEN <<>>
    ELSE [i \in DOMAIN list.items |-> NestedItem(path, id_field, list.items[i])]

\* Lines 978-1046: the query of the main search.
build_query(r) ==
    [bool |->
        [must |-> <<IF TextGiven(r.text) THEN QueryString(r.text) ELSE MatchAll>>
                  \o (IF r.collection_id # ""
                      THEN <<collection_filter(r.collection_id)>> ELSE <<>>),
         filter |-> [bool |-> [should |->
            ItemClauses(r.annotations, "annotations", "annotations.id_ER")
            \o ItemClauses(r.metadata, "metadata", "metadata.value")]]]]

\* A term clause on collectionId or collectionId.keyword.
IsCollectionTerm(x) ==
    "term" \in DOMAIN x /\ x.term.field \in {"collectionId", "collectionId.keyword"}

\* Lines 1116-1139: the must entries the fallback query leaves out.
IsCollectionFilter(m) ==
    \/ IsCollectionTerm(m)
    \/ /\ "bool" \in DOMAIN m
       /\ \E i \in DOMAIN m.bool.should : IsCollectionTerm(m.bool.should[i])

\* Faulty variant: the relaxed search, without a collection constraint.
fallback_must_relaxed(must, c) ==
    LET Kept(m) == ~IsCollectionFilter(m)
    IN  SelectSeq(must, Kept)

\* Lines 1114-1145: the must list of the fallback query.
fallback_must(must, c) ==
    LET Kept(m) == ~IsCollectionFilter(m)
    IN  Append(SelectSeq(must, Kept), MatchPhrase("collectionId", c))

\* Line 1113: query.copy() is a shallow copy, so the fallback query and
\* the main query share the dict under "bool".
fallback_query(q, c) ==
    [bool |-> [must |-> fallback_must(q.bool.must, c), filter |-> q.bool.filter]]

\* A search response; the query it answers is kept with it.
SearchResult(kind, q, total) == [kind |-> kind, query |-> q, total |-> total]

\* hits.total.value of the responses of the index.
HitCounts == {0, 3}

Count(n) == [none |-> FALSE, value |-> n]

\* The counts a diagnostic search may leave: None when it raised.
DiagnosticCounts == {NoCount} \cup {Count(n) : n \in HitCounts}

FacetRequests ==
    [text : {"", " ", "verdict"},
     collection_id : {"", "c1"},
     annotations : {NoList, List(<<>>), List(<<[type |-> "persona", value |-> "e1"]>>)},
     metadata : {NoList, List(<<[type |-> "anno", value |-> "2020"]>>)}]

\* Lines 978-1067: the query is built and the main search runs; its
\* exception is raised again.  With hits, or without a collection id, the
\* handler goes on to build the result.
MainSearch ==
    /\ fpc = "start"
    /\ index_query' = build_query(req)
    /\ \/ \E n \in HitCounts :
            /\ search_res' = SearchResult("main", index_query', n)
            /\ searches' = Append(searches, SearchResult("main", index_query', n))
            /\ fpc' = IF n = 0 /\ req.collection_id # ""
                      THEN "diagnose_kw" ELSE "respond"
       \/ /\ fpc' = "raised"
          /\ UNCHANGED <<search_res, searches>>
    /\ UNCHANGED <<req, count_kw, count_text, count_all, returned>>
    /\ UNCHANGED <<search_vars, gate, concurrent>>

\* Lines 1075-1082: the count of the term on collectionId.keyword.
DiagnoseKeyword ==
    /\ fpc = "diagnose_kw"
    /\ \E c \in DiagnosticCounts :
        /\ count_kw' = c
        /\ searches' = IF c.none THEN searches
                       ELSE Append(searches,
                                SearchResult("diag_kw",
                                    TermOn("collectionId.keyword", req.collection_id),
                                    c.value))
    /\ fpc' = "diagnose_text"
    /\ UNCHANGED <<req, index_query, search_res, count_text, count_all, returned>>
    /\ UNCHANGED <<search_vars, gate, concurrent>>

\* Lines 1084-1091: the count of the term on collectionId.
DiagnoseText ==
    /\ fpc = "diagnose_text"
    /\ \E c \in DiagnosticCounts :
        /\ count_text' = c
        /\ searches' = IF c.none THEN searches
                       ELSE Append(searches,
                                SearchResult("diag_text",
                                    TermOn("collectionId", req.collection_id),
                                    c.value))
    /\ fpc' = "diagnose_all"
    /\ UNCHANGED <<req, index_query, search_res, count_kw, count_all, returned>>
    /\ UNCHANGED <<search_vars, gate, concurrent>>

\* Lines 1093-1100: the count of all documents of the index.
DiagnoseAll ==
    /\ fpc = "diagnose_all"
    /\ \E c \in DiagnosticCounts :
        /\ count_all' = c
        /\ searches' = IF c.none THEN searches
                       ELSE Append(searches, SearchResult("diag_all", MatchAll, c.value))
    /\ fpc' = "fallback"
    /\ UNCHANGED <<req, index_query, search_res, count_kw, count_text, returned>>
    /\ UNCHANGED <<search_vars, gate, concurrent>>

\* Line 1112: the keyword count is 0 or None and the text count is over 0.
TextMappingSuspected ==
    /\ count_kw.none \/ count_kw.value = 0
    /\ ~count_text.none /\ count_text.value > 0

\* Lines 1110-1169: the retry with match_phrase on collectionId; its
\* response takes the place of the main one when it has hits, and its
\* exception is logged and dropped.
Fallback ==
    /\ fpc = "fallback"
    /\ IF TextMappingSuspected
       THEN /\ index_query' = fallback_query(index_query, req.collection_id)
            /\ \/ \E n \in HitCounts :
                    /\ searches' = Append(searches,
                                        SearchResult("fallback", index_query', n))
                    /\ search_res' = IF n > 0
                                     THEN SearchResult("fallback", index_query', n)
                                     ELSE search_res
               \/ UNCHANGED <<search_res, searches>>
       ELSE UNCHANGED <<index_query, search_res, searches>>
    /\ fpc' = "respond"
    /\ UNCHANGED <<req, count_kw, count_text, count_all, returned>>
    /\ UNCHANGED <<search_vars, gate, concurrent>>

\* Lines 1171-1190: hits, facets and pagination are read from search_res.
Respond ==
    /\ fpc = "respond"
    /\ returned' = search_res
    /\ fpc' = "done"
    /\ UNCHANGED <<req, index_query, search_res, count_kw, count_text,
                   count_all, searches>>
    /\ UNCHANGED <<search_vars, gate, concurrent>>

InitFacets ==
    /\ SearchAtRest
    /\ GateAtRest
    /\ ConcurrentAtRest
    /\ fpc = "start"
    /\ req \in FacetRequests
    /\ index_query = <<>>
    /\ search_res = NoSearchResult
    /\ count_kw = NoCount
    /\ count_text = NoCount
    /\ count_all = NoCount
    /\ searches = <<>>
    /\ returned = NoSearchResult

NextFacets ==
    \/ MainSearch
    \/ DiagnoseKeyword
    \/ DiagnoseText
    \/ DiagnoseAll
    \/ Fallback
    \/ Respond

SpecFacets == InitFacets /\ [][NextFacets]_vars

-----------------------------------------------------------------------------
(* Concurrent requests of VectorSearch.search on the one shared instance.  *)
(* query_collection calls search without awaiting inside it; the steps of  *)
(* the requests are interleaved here at every collaborator call, which     *)
(* covers any server that runs the calls side by side.                     *)

\* Faulty variant: the working variables are attributes of the instance.
SlotOfInstance(r) == 1

\* Lines 88-293: every call of search has its own local variables.
Slot(r) == r

\* Another request is between its call and its return.
Beside(r) == \E o \in Searches \ {r} : cpc[o] \notin {"idle", "done"}

\* The requests of the model: one target id, and none.
ConcurrentArgs ==
    {[query |-> QueryEstrai, filter_ids |-> ListIds(<<DocId(1)>>),
      force_rag |-> FALSE],
     [query |-> QueryVerdict, filter_ids |-> NoneIds, force_rag |-> FALSE]}

\* The rank maps the vector searches of the model are collected to.
ConcurrentRankMaps ==
    {RankMapOf(<<ChunkId(1, 1), ChunkId(1, 2)>>),
     RankMapOf(<<ChunkId(2, 1)>>)}

\* The rank map the full-text searches of the model are collected to.
ConcurrentFullTextRankMaps == {RankMapOf(<<ChunkId(1, 1), ChunkId(1, 2)>>)}

\* What the retriever answers in the model.
ConcurrentRetrieverAnswers == {"error", "text of 9000 tokens"}

\* One step of request r: its position moves on and it is noted whether
\* another request was under way.
Step(r, from, to) ==
    /\ cpc[r] = from
    /\ cpc' = [cpc EXCEPT ![r] = to]
    /\ overlapped' = (overlapped \/ Beside(r))
    /\ UNCHANGED <<instance, search_vars, gate, facets>>

\* Line 88: search is called.
Begin(r) ==
    /\ Step(r, "idle", "start")
    /\ \E a \in ConcurrentArgs : cargs' = [cargs EXCEPT ![r] = a]
    /\ frame' = [frame EXCEPT ![Slot(r)] = EmptyFrame]
    /\ UNCHANGED <<canswers, cresult>>

\* Lines 150-184: the vector search and the collection of its ranks.
SearchVectorIn(r) ==
    /\ Step(r, "start", "vector_searched")
    /\ \E ranks \in {m \in ConcurrentRankMaps : RespectsFilter(m, cargs[r].filter_ids)} :
        /\ frame' = [frame EXCEPT ![Slot(r)].vector_ranks = ranks]
        /\ canswers' = [canswers EXCEPT ![r].vector_ranks = ranks]
    /\ UNCHANGED <<cargs, cresult>>

\* Lines 162-187: the full-text search and the collection of its ranks.
SearchFullTextIn(r) ==
    /\ Step(r, "vector_searched", "ranked")
    /\ \E ranks \in {m \in ConcurrentFullTextRankMaps :
                        RespectsFilter(m, cargs[r].filter_ids)} :
        /\ frame' = [frame EXCEPT ![Slot(r)].full_text_ranks = ranks]
        /\ canswers' = [canswers EXCEPT ![r].full_text_ranks = ranks]
    /\ UNCHANGED <<cargs, cresult>>

\* The ranking of the scores, the chunk identities iterated in `order`.
RankingIn(order, scores) ==
    FinalRanking([i \in DOMAIN order |-> <<order[i], scores[order[i]]>>])

\* Lines 189-203: the fused scores and the final ranking.
FuseIn(r) ==
    /\ Step(r, "ranked", "fused")
    /\ LET scores == CombinedScores(RrfK(cargs[r].filter_ids),
                                    frame[Slot(r)].vector_ranks,
                                    frame[Slot(r)].full_text_ranks)
       IN  \E order \in IterOrders(DOMAIN scores, CanonicalOrder) :
            frame' = [frame EXCEPT ![Slot(r)].final_ranking = RankingIn(order, scores)]
    /\ UNCHANGED <<cargs, canswers, cresult>>

\* The map the selection builds of a ranking for the filter f.
SelectedMap(ranking, f) ==
    IF SelectsSingle(f) THEN SelectSingle(ranking, ChunksToGather(f))
    ELSE SelectMulti(ranking)

\* Lines 209-266: gather the top chunks into doc_chunks_id_map.
SelectIn(r) ==
    /\ Step(r, "fused", "selected")
    /\ frame' = [frame EXCEPT ![Slot(r)].doc_chunks_id_map =
                    SelectedMap(frame[Slot(r)].final_ranking, cargs[r].filter_ids)]
    /\ UNCHANGED <<cargs, canswers, cresult>>

\* Lines 277-284: one turn of the retriever loop.
RetrieveIn(r) ==
    /\ Len(canswers[r].retrieved) < Len(doc_ids(frame[Slot(r)].doc_chunks_id_map))
    /\ Step(r, "selected", "selected")
    /\ LET doc_id == doc_ids(frame[Slot(r)].doc_chunks_id_map)
                        [Len(canswers[r].retrieved) + 1]
       IN  \E d \in ConcurrentRetrieverAnswers :
            /\ frame' = [frame EXCEPT ![Slot(r)].full_docs =
                            AfterRetrieve(frame[Slot(r)].full_docs, doc_id, d)]
            /\ canswers' = [canswers EXCEPT ![r].retrieved = Append(@, d)]
    /\ UNCHANGED <<cargs, cresult>>

\* Lines 286-293: search returns the result of _prepare_results.
PrepareIn(r) ==
    /\ Len(canswers[r].retrieved) = Len(doc_ids(frame[Slot(r)].doc_chunks_id_map))
    /\ Step(r, "selected", "done")
    /\ cresult' = [cresult EXCEPT ![r] =
                      prepare_results(frame[Slot(r)].full_docs,
                                      frame[Slot(r)].doc_chunks_id_map,
                                      cargs[r].query, cargs[r].filter_ids,
                                      cargs[r].force_rag)]
    /\ UNCHANGED <<cargs, canswers, frame>>

InitConcurrent ==
    /\ SearchAtRest
    /\ GateAtRest
    /\ FacetsAtRest
    /\ ConcurrentAtRest

NextConcurrent ==
    \E r \in Searches :
        \/ Begin(r)
        \/ SearchVectorIn(r)
        \/ SearchFullTextIn(r)
        \/ FuseIn(r)
        \/ SelectIn(r)
        \/ RetrieveIn(r)
        \/ PrepareIn(r)

SpecConcurrent == InitConcurrent /\ [][NextConcurrent]_vars

-----------------------------------------------------------------------------
(* Properties of the result-assembly policy, checked under SpecPolicy *)

\* The drawn query contains a trigger keyword, case-insensitively.
QueryHasTrigger == query \in {QueryEstrai, QueryRiassumi}

\* Exactly one target document id was supplied.
OneTargetId == ~filter_ids.none /\ Len(filter_ids.ids) = 1

\* The single-target rule applies: one target id and a first retrieved
\* document below the token limit.
SingleRuleApplies ==
    /\ OneTargetId
    /\ Len(full_docs) > 0
    /\ NumTokens(full_docs[1].text) < 18000

TokenSum == SumSeq([i \in 1..Len(full_docs) |-> NumTokens(full_docs[i].text)])

\* The selected chunk list of document doc_id in the drawn map.
SelectedChunks(doc_id) ==
    LET d == CHOOSE d \in 1..Len(doc_chunks_id_map) :
                 doc_chunks_id_map[d].id = doc_id
    IN  doc_chunks_id_map[d].chunks

\* Every retrieved document yields one chunk-based record, in order.
AllChunkBased ==
    /\ Len(doc_results) = Len(full_docs)
    /\ \A i \in 1..Len(doc_results) :
        /\ doc_results[i].doc = full_docs[i]
        /\ doc_results[i].full_docs = FALSE
        /\ doc_results[i].chunks = SelectedChunks(full_docs[i].id)

\* Every retrieved document yields one whole-document record, in order.
AllWholeDocument ==
    /\ Len(doc_results) = Len(full_docs)
    /\ \A i \in 1..Len(doc_results) :
        /\ doc_results[i].doc = full_docs[i]
        /\ doc_results[i].full_docs = TRUE
        /\ Len(doc_results[i].chunks) = 1
        /\ doc_results[i].chunks[1].text = full_docs[i].text
        /\ doc_results[i].chunks[1].metadata.chunk_size = Len(full_docs[i].text)

\* C1: with force_rag set, whatever the query, the filter_ids and the token
\* counts, every retrieved document yields one record carrying its selected
\* chunk list with full_docs = false; no record has full_docs = true.
C1_ForceRagPrecedence == (pc = "done" /\ force_rag) => AllChunkBased

\* C1 witness: force_rag is set on a call where the keyword rule would have
\* returned two whole documents.
C1_Witness ==
    /\ pc = "done" /\ force_rag /\ QueryHasTrigger
    /\ Len(full_docs) = 2 /\ TokenSum <= 18000
    /\ Len(doc_results) = 2

\* C2: without force_rag, with exactly one target id and a retrieved document
\* below 18000 tokens, the result is a single record for that document whose
\* chunks list is one pseudo-chunk holding the full text, full_docs = true.
C2_SingleTargetWholeDocument ==
    (pc = "done" /\ ~force_rag /\ SingleRuleApplies) =>
        /\ Len(doc_results) = 1
        /\ doc_results[1].doc = full_docs[1]
        /\ doc_results[1].full_docs = TRUE
        /\ Len(doc_results[1].chunks) = 1
        /\ doc_results[1].chunks[1].text = full_docs[1].text

\* C3: without force_rag and when the single-target rule did not return, a
\* trigger keyword in the lower-cased query and a token sum <= 18000 make
\* every retrieved document a full_docs = true record whose chunks list is
\* one pseudo-chunk with the entire text and chunk_size its character length.
C3_AggregateFullDocuments ==
    (pc = "done" /\ ~force_rag /\ ~SingleRuleApplies
        /\ QueryHasTrigger /\ TokenSum <= 18000) => AllWholeDocument

\* C3 witness: two documents whose token counts sum to exactly 18000.
C3_Witness ==
    /\ pc = "done" /\ ~force_rag /\ ~SingleRuleApplies
    /\ QueryHasTrigger /\ Len(full_docs) = 2 /\ TokenSum = 18000
    /\ Len(doc_results) = 2

\* C4: with a trigger keyword in the query and a token sum above 18000,
\* every returned record has full_docs = false and carries that document's
\* selected chunk list, never a whole-document pseudo-chunk.
C4_TokenBudgetFallback ==
    (pc = "done" /\ QueryHasTrigger /\ TokenSum > 18000) =>
        \A i \in 1..Len(doc_results) :
            /\ doc_results[i].full_docs = FALSE
            /\ doc_results[i].chunks = SelectedChunks(doc_results[i].doc.id)

\* C4 witness: two documents totalling 18001 tokens, each within the limit.
C4_Witness ==
    /\ pc = "done" /\ ~force_rag /\ ~OneTargetId /\ QueryHasTrigger
    /\ Len(full_docs) = 2 /\ TokenSum = 18001
    /\ Len(doc_results) = 2

\* C5: the rules apply in the order force flag > single-target short
\* document > trigger keyword with token sum > default, a lower rule deciding
\* only when no higher one applied; with one target id and a first document
\* below 18000 tokens the query has no influence on the result.
C5_PriorityOrder ==
    pc = "done" =>
        /\ force_rag => AllChunkBased
        /\ (~force_rag /\ SingleRuleApplies) =>
            /\ Len(doc_results) = 1
            /\ doc_results[1].doc = full_docs[1]
            /\ \A q \in Queries :
                prepare_results(full_docs, doc_chunks_id_map, q,
                                filter_ids, force_rag) = doc_results
        /\ (~force_rag /\ ~SingleRuleApplies
                /\ QueryHasTrigger /\ TokenSum <= 18000) => AllWholeDocument
        /\ (~force_rag /\ ~SingleRuleApplies
                /\ ~(QueryHasTrigger /\ TokenSum <= 18000)) => AllChunkBased

\* C5 witness: one target id, two retrieved documents, the first one short,
\* and a query whose keyword would otherwise return both whole documents.
C5_Witness ==
    /\ pc = "done" /\ ~force_rag /\ SingleRuleApplies /\ QueryHasTrigger
    /\ Len(full_docs) = 2 /\ TokenSum <= 18000
    /\ Len(doc_results) = 1

-----------------------------------------------------------------------------
(* Properties of rank fusion and chunk selection, checked under SpecFusion *)

Fused == pc \in {"fused", "selected"}

\* The chunk identities either rank map holds.
UnionOfRankMaps == DOMAIN vector_ranks \cup DOMAIN full_text_ranks

\* The RRF constant the request is to use.
ExpectedRrfK == IF OneTargetId THEN 50 ELSE 30

\* C6: for every chunk identity c of the union of the two rank maps the fused
\* score is 1/(rrf_k + rank_vector(c)) + 1/(rrf_k + rank_fulltext(c)), a rank
\* missing from a map contributing exactly 0 (so rank 1 in both maps with
\* rrf_k = 50 scores 2/51, and a chunk of one map scores that map's term).
C6_RrfScore ==
    Fused =>
        \A c \in UnionOfRankMaps :
            /\ c \in DOMAIN combined_scores
            /\ LET k == ExpectedRrfK
                   s == combined_scores[c]
               IN  IF c \in DOMAIN vector_ranks /\ c \in DOMAIN full_text_ranks
                   THEN s.num * ((k + vector_ranks[c]) * (k + full_text_ranks[c]))
                        = s.den * ((k + vector_ranks[c]) + (k + full_text_ranks[c]))
                   ELSE IF c \in DOMAIN vector_ranks
                   THEN s.num * (k + vector_ranks[c]) = s.den
                   ELSE s.num * (k + full_text_ranks[c]) = s.den

\* C6 witness: with rrf_k = 50 a chunk at rank 1 in both maps scores 2/51
\* beside a chunk that only the vector rank map holds.
C6_Witness ==
    /\ pc = "fused" /\ rrf_k = 50
    /\ \E c \in DOMAIN combined_scores :
        /\ c \in DOMAIN vector_ranks /\ vector_ranks[c] = 1
        /\ c \in DOMAIN full_text_ranks /\ full_text_ranks[c] = 1
        /\ combined_scores[c].num * 51 = 2 * combined_scores[c].den
    /\ \E c \in DOMAIN combined_scores :
        c \in DOMAIN vector_ranks /\ c \notin DOMAIN full_text_ranks

\* C7: the chunk identities of the fused ranking are exactly the union of
\* the keys of the two rank maps, each identity once, so the ranking is never
\* longer than the two maps together.
C7_UnionCoverage ==
    Fused =>
        /\ {final_ranking[i][1] : i \in DOMAIN final_ranking} = UnionOfRankMaps
        /\ Len(final_ranking) = Cardinality(UnionOfRankMaps)
        /\ Len(final_ranking) <= Cardinality(DOMAIN vector_ranks)
                                 + Cardinality(DOMAIN full_text_ranks)

\* C7 witness: two overlapping rank maps, each with a chunk of its own.
C7_Witness ==
    /\ pc = "fused"
    /\ DOMAIN vector_ranks \cap DOMAIN full_text_ranks # {}
    /\ DOMAIN vector_ranks \ DOMAIN full_text_ranks # {}
    /\ DOMAIN full_text_ranks \ DOMAIN vector_ranks # {}
    /\ Len(final_ranking) = Cardinality(UnionOfRankMaps)

\* The ranks a rank map of the model can assign.
PossibleRanks == 1..(MaxGridDocs * MaxGridChunks)

\* C8: for the request's rrf_k and any chunk identity, a better (smaller)
\* rank under one method, or a rank where there was none, with the rank
\* under the other method unchanged, never gives a smaller fused score.
C8_RrfMonotonicity ==
    Fused =>
        \A c \in DOMAIN combined_scores :
            \A r \in PossibleRanks :
                /\ (c \notin DOMAIN vector_ranks \/ r < RankGet(vector_ranks, c))
                    => FracGeq(rrf_score(rrf_k, r, RankGet(full_text_ranks, c)),
                               combined_scores[c])
                /\ (c \notin DOMAIN full_text_ranks \/ r < RankGet(full_text_ranks, c))
                    => FracGeq(rrf_score(rrf_k, RankGet(vector_ranks, c), r),
                               combined_scores[c])

\* C8 witness: a fused chunk whose vector rank can improve and whose
\* full-text rank is missing.
C8_Witness ==
    /\ pc = "fused"
    /\ \E c \in DOMAIN combined_scores :
        /\ c \in DOMAIN vector_ranks /\ vector_ranks[c] > 1
        /\ c \notin DOMAIN full_text_ranks

\* C9: the fused ranking is in descending order of fused score; entries of
\* equal score may stand in any relative order.
C9_DescendingScores ==
    Fused =>
        \A i, j \in DOMAIN final_ranking :
            i < j => FracGeq(final_ranking[i][2], final_ranking[j][2])

\* C9 witness: a ranking with two entries of equal score and a third of a
\* strictly smaller one.
C9_Witness ==
    /\ pc = "fused"
    /\ \E i, j, l \in DOMAIN final_ranking :
        /\ i < j /\ j < l
        /\ FracEq(final_ranking[i][2], final_ranking[j][2])
        /\ FracGt(final_ranking[j][2], final_ranking[l][2])

\* The documents with a chunk in the fused ranking.
RankedDocs == {final_ranking[i][1][1] : i \in DOMAIN final_ranking}

ChunksRankedOf(doc_id) ==
    Cardinality({i \in DOMAIN final_ranking : final_ranking[i][1][1] = doc_id})

\* C10: in multi-document mode (zero, or two or more, target ids) the
\* document-chunk map has at most 5 keys and each key's chunk list has at
\* most 5 entries, whatever the size of the fused ranking.
C10_ModeBoundedness ==
    (pc = "selected" /\ ~OneTargetId) =>
        /\ Len(doc_chunks_id_map) <= 5
        /\ Cardinality(MapKeys(doc_chunks_id_map)) = Len(doc_chunks_id_map)
        /\ \A i \in DOMAIN doc_chunks_id_map :
            Len(doc_chunks_id_map[i].chunks) <= 5

\* C10 witness: a fused ranking of more than 5 documents, each with more
\* than 5 chunks, selected down to 5 documents of 5 chunks.
C10_Witness ==
    /\ pc = "selected" /\ ~OneTargetId
    /\ Cardinality(RankedDocs) > 5
    /\ \A d \in RankedDocs : ChunksRankedOf(d) > 5
    /\ Len(doc_chunks_id_map) = 5
    /\ \A i \in DOMAIN doc_chunks_id_map : Len(doc_chunks_id_map[i].chunks) = 5

-----------------------------------------------------------------------------
(* Properties of single document mode, checked under SpecSingle *)

\* The number of chunk records the document-chunk map holds for doc_id.
SelectedCount(doc_id) ==
    IF doc_id \in MapKeys(doc_chunks_id_map)
    THEN Len(SelectedChunks(doc_id)) ELSE 0

\* C11: in single-document mode the number of chunk records selected for
\* the target document is min(chunks_to_gather, number of chunks of that
\* document in the fused ranking), with chunks_to_gather = 40.
C11_SingleDocumentCompleteness ==
    (pc = "selected" /\ OneTargetId) =>
        /\ chunks_to_gather = 40
        /\ SelectedCount(filter_ids.ids[1]) =
               Min(40, ChunksRankedOf(filter_ids.ids[1]))

\* C11 witness: more chunks of the target document are ranked than the
\* budget admits, and as many as the budget admits are selected.
C11_Witness ==
    /\ pc = "selected" /\ OneTargetId
    /\ ChunksRankedOf(filter_ids.ids[1]) > 40
    /\ SelectedCount(filter_ids.ids[1]) = 40

-----------------------------------------------------------------------------
(* Properties of multi document mode, checked under SpecFusion *)

\* The chunk identity a chunk record of the map was built from.
ChunkIdentity(record) == <<record.id, record.text, record.text_anonymized>>

\* The identities of the chunks selected for doc_id.
SelectedOf(doc_id) ==
    {ChunkIdentity(SelectedChunks(doc_id)[i]) :
        i \in DOMAIN SelectedChunks(doc_id)}

\* The identities of the chunks of doc_id in the fused ranking.
RankedOf(doc_id) == {c \in DOMAIN combined_scores : c[1] = doc_id}

\* doc_id has a chunk of fused score `score` and none of a greater one.
IsBestScore(doc_id, score) ==
    /\ \E c \in RankedOf(doc_id) : FracEq(combined_scores[c], score)
    /\ \A c \in RankedOf(doc_id) : FracGeq(score, combined_scores[c])

\* C12: in multi-document mode the selected documents are the (up to 5)
\* documents of highest best-chunk fused score: no unselected document has
\* a best-chunk score strictly greater than a selected one; and the chunks
\* selected for a document are its (up to 5) highest-scoring chunks of the
\* whole fused ranking: no unselected chunk of it scores strictly higher
\* than a selected one.
C12_MultiDocumentSelection ==
    (pc = "selected" /\ ~OneTargetId) =>
        /\ MapKeys(doc_chunks_id_map) \subseteq RankedDocs
        /\ Len(doc_chunks_id_map) = Min(5, Cardinality(RankedDocs))
        /\ \A d \in MapKeys(doc_chunks_id_map) :
            /\ \A u \in RankedDocs \ MapKeys(doc_chunks_id_map) :
                 \A b \in RankedOf(d), c \in RankedOf(u) :
                     (IsBestScore(d, combined_scores[b])
                      /\ IsBestScore(u, combined_scores[c]))
                     => FracGeq(combined_scores[b], combined_scores[c])
            /\ SelectedOf(d) \subseteq RankedOf(d)
            /\ Len(SelectedChunks(d)) = Min(5, Cardinality(RankedOf(d)))
            /\ Cardinality(SelectedOf(d)) = Len(SelectedChunks(d))
            /\ \A c \in SelectedOf(d) : \A u \in RankedOf(d) \ SelectedOf(d) :
                 FracGeq(combined_scores[c], combined_scores[u])

\* C12 witness: six documents are ranked and one is left out whose best
\* chunk scores strictly less than a chunk of every selected document, and
\* a selected document has an unselected chunk of a strictly smaller score
\* than its selected ones.
C12_Witness ==
    /\ pc = "selected" /\ ~OneTargetId
    /\ Cardinality(RankedDocs) > 5
    /\ \E u \in RankedDocs \ MapKeys(doc_chunks_id_map) :
        \A d \in MapKeys(doc_chunks_id_map) :
            \E b \in RankedOf(d) : \A c \in RankedOf(u) :
                FracGt(combined_scores[b], combined_scores[c])
    /\ \E d \in MapKeys(doc_chunks_id_map) :
        \E u \in RankedOf(d) \ SelectedOf(d) :
            \A c \in SelectedOf(d) :
                FracGt(combined_scores[c], combined_scores[u])

-----------------------------------------------------------------------------
(* Properties of one whole request, checked under Spec *)

\* A call of the collaborator op stands in the log of the request.
Executed(op) == \E i \in DOMAIN calls : calls[i].op = op

\* The request is past both search stages: no collaborator raised in them.
SearchesOver == pc \in {"searched", "ranked", "fused", "selected", "done"}

\* C13: the searches a request executes are determined by its retrieval
\* method alone: "full" and "hibrid_no_ner" execute the vector and the
\* full-text search, "dense" the vector search only, "full-text" the
\* full-text search only, any other value neither.
C13_SearchesByMethod ==
    /\ Executed("search_vector") =>
         retrieval_method \in {"full", "hibrid_no_ner", "dense"}
    /\ Executed("search_full_text") =>
         retrieval_method \in {"full", "hibrid_no_ner", "full-text"}
    /\ SearchesOver =>
        /\ Executed("search_vector") <=>
             retrieval_method \in {"full", "hibrid_no_ner", "dense"}
        /\ Executed("search_full_text") <=>
             retrieval_method \in {"full", "hibrid_no_ner", "full-text"}
        /\ results.executed <=> Executed("search_vector")
        /\ response_full_text.executed <=> Executed("search_full_text")

\* C13 witness: a "hibrid_no_ner" request past its searches, both made.
C13_Witness ==
    /\ pc = "searched"
    /\ retrieval_method = "hibrid_no_ner"
    /\ Executed("search_vector")
    /\ Executed("search_full_text")

\* The retrieval method is one of the four the service documents.
RecognizedMethod ==
    retrieval_method \in {"full", "dense", "full-text", "hibrid_no_ner"}

\* C14: for a retrieval method outside full, dense, full-text and
\* hibrid_no_ner no search-engine call and no retriever call is made, both
\* rank maps and the fused ranking stay empty, and search returns an empty
\* list; the only exception such a request can end with is the one of the
\* embedding model.
C14_UnrecognizedMethod ==
    ~RecognizedMethod =>
        /\ ~Executed("search_vector")
        /\ ~Executed("search_full_text")
        /\ ~Executed("retrieve")
        /\ ~Executed("tokenize")
        /\ vector_ranks = <<>> /\ full_text_ranks = <<>>
        /\ final_ranking = <<>>
        /\ doc_chunks_id_map = <<>>
        /\ doc_results = <<>>
        /\ pc = "raised" => calls = <<Call("encode", "", FALSE)>>
        /\ pc # "start" /\ pc # "raised" => calls = <<Call("encode", "", TRUE)>>

\* C14 witness: a request of an unrecognized method has returned, the
\* embedding its only collaborator call.
C14_Witness ==
    /\ pc = "done"
    /\ ~RecognizedMethod
    /\ doc_results = <<>>
    /\ calls = <<Call("encode", "", TRUE)>>

\* The embedding returned: the sizes of the request are set.
Embedded == calls # <<>> /\ calls[1].op = "encode" /\ calls[1].ok

\* C15: a request with exactly one target document id uses knn_k = 50,
\* inner_hits_size = 50, chunks_to_gather = 40 and rrf_k = 50; every other
\* request (no ids, an empty list, two or more ids) uses knn_k = 25,
\* inner_hits_size = 30, chunks_to_gather = 25 and rrf_k = 30.
C15_AdaptiveSizing ==
    /\ Embedded =>
        IF OneTargetId
        THEN knn_k = 50 /\ inner_hits_size = 50 /\ chunks_to_gather = 40
        ELSE knn_k = 25 /\ inner_hits_size = 30 /\ chunks_to_gather = 25
    /\ pc \in {"fused", "selected", "done"} =>
        IF OneTargetId THEN rrf_k = 50 ELSE rrf_k = 30

\* C15 witness: a request with two target ids has fused its rank maps
\* with the sizes of multi-document mode.
C15_Witness ==
    /\ pc = "fused"
    /\ ~filter_ids.none /\ Len(filter_ids.ids) = 2
    /\ knn_k = 25 /\ inner_hits_size = 30 /\ chunks_to_gather = 25
    /\ rrf_k = 30

\* The calls of the retriever the request made, in order.
RetrieveCalls ==
    LET IsRetrieve(c) == c.op = "retrieve"
    IN  SelectSeq(calls, IsRetrieve)

\* The document ids whose retrieval succeeded, in the order of the calls.
SucceededIds ==
    LET Ok(c) == c.ok
        ok == SelectSeq(RetrieveCalls, Ok)
    IN  [i \in DOMAIN ok |-> ok[i].arg]

\* The document ids for which the retriever returned an error.
FailedIds == {RetrieveCalls[i].arg : i \in {j \in DOMAIN RetrieveCalls :
                                                ~RetrieveCalls[j].ok}}

\* The document ids of the records search returned, in order.
ResultIds == [i \in DOMAIN doc_results |-> doc_results[i].doc.id]

\* C16: whatever documents the retriever returns an error for, the result
\* list holds exactly one record for each id whose retrieval succeeded and
\* none for a failed id, and the request does not fail: no retriever error
\* ends it with an exception.
C16_PartialRetrieverFailure ==
    /\ pc = "done" =>
        /\ ResultIds = SucceededIds
        /\ \A i, j \in DOMAIN ResultIds : i # j => ResultIds[i] # ResultIds[j]
        /\ \A i \in DOMAIN ResultIds : ResultIds[i] \notin FailedIds
    /\ pc = "raised" => RetrieveCalls = <<>>

\* C16 witness: of the three documents of the map one failed, and search
\* returned two records.
C16_Witness ==
    /\ pc = "done"
    /\ Len(doc_chunks_id_map) = 3
    /\ Cardinality(FailedIds) = 1
    /\ Len(doc_results) = 2

\* The retriever was called and returned an error every time.
AllRetrievalsFailed ==
    /\ RetrieveCalls # <<>>
    /\ \A i \in DOMAIN RetrieveCalls : ~RetrieveCalls[i].ok

\* C17: when the retriever returns an error for every document id of the
\* document-chunk map, search returns an empty list and raises no error,
\* in single-document and in multi-document mode, whatever the force flag
\* and the query.
C17_AllRetrievalsFail ==
    AllRetrievalsFailed =>
        /\ pc # "raised"
        /\ full_docs = <<>>
        /\ pc = "done" => doc_results = <<>>

\* C17 witness: in single-document mode, with a trigger keyword in the
\* query and no force flag, the one retrieval failed and search returned.
C17_Witness ==
    /\ pc = "done"
    /\ OneTargetId /\ QueryHasTrigger /\ ~force_rag
    /\ AllRetrievalsFailed
    /\ Len(RetrieveCalls) = Len(doc_chunks_id_map)
    /\ doc_results = <<>>

\* In multi-document mode under the force flag every retrieval failed and
\* search returned.
C17_WitnessMulti ==
    /\ pc = "done"
    /\ ~OneTargetId /\ force_rag
    /\ AllRetrievalsFailed
    /\ Len(RetrieveCalls) > 1
    /\ doc_results = <<>>

\* The i-th call of the request is an embedding or a search that raised.
FatalFailure(i) ==
    /\ calls[i].op \in {"encode", "search_vector", "search_full_text"}
    /\ ~calls[i].ok

\* C18: a failure of the embedding call or of an executed search call
\* fails the whole request: search ends with the exception and returns no
\* list, the failed call is not made a second time, and no collaborator
\* (search engine, retriever, tokenizer) is called after it.
C18_FatalCollaboratorFailure ==
    /\ \A i \in DOMAIN calls :
        FatalFailure(i) =>
            /\ i = Len(calls)
            /\ pc = "raised"
            /\ doc_results = <<>>
            /\ \A j \in DOMAIN calls : calls[j].op = calls[i].op => j = i
    /\ pc = "raised" => calls # <<>> /\ FatalFailure(Len(calls))

\* C18 witness: the full-text search raised after the embedding and the
\* vector search had returned; the request ended there.
C18_Witness ==
    /\ pc = "raised"
    /\ Len(calls) = 3
    /\ calls[3] = Call("search_full_text", "", FALSE)
    /\ results.executed /\ results.hits # <<>>
    /\ doc_results = <<>>

\* Every chunk record of the sequence was built from a key of a rank map.
FromRankMaps(chunks) ==
    \A c \in DOMAIN chunks : ChunkIdentity(chunks[c]) \in UnionOfRankMaps

\* C19: every chunk identity (document id, chunk text, anonymized text) of
\* the document-chunk map, and so of every chunk-based result record, is a
\* key of the vector rank map or of the full-text rank map of the request.
C19_Provenance ==
    /\ \A i \in DOMAIN doc_chunks_id_map :
        /\ FromRankMaps(doc_chunks_id_map[i].chunks)
        /\ \A c \in DOMAIN doc_chunks_id_map[i].chunks :
             doc_chunks_id_map[i].chunks[c].id = doc_chunks_id_map[i].id
    /\ \A i \in DOMAIN doc_results :
        ~doc_results[i].full_docs => FromRankMaps(doc_results[i].chunks)

\* C19 witness: search returned a chunk-based record with a chunk that only
\* the full-text rank map holds and one that only the vector rank map holds.
C19_Witness ==
    /\ pc = "done"
    /\ \E i \in DOMAIN doc_results :
        /\ ~doc_results[i].full_docs
        /\ \E c \in DOMAIN doc_results[i].chunks :
             ChunkIdentity(doc_results[i].chunks[c])
                 \in DOMAIN full_text_ranks \ DOMAIN vector_ranks
        /\ \E c \in DOMAIN doc_results[i].chunks :
             ChunkIdentity(doc_results[i].chunks[c])
                 \in DOMAIN vector_ranks \ DOMAIN full_text_ranks

\* The place of a collaborator in the order of a request.
CallStage(op) ==
    CASE op = "encode" -> 1
      [] op = "search_vector" -> 2
      [] op = "search_full_text" -> 3
      [] op = "retrieve" -> 4
      [] op = "tokenize" -> 5

\* The number of calls of the collaborator op in the log.
CallCount(op) == Cardinality({i \in DOMAIN calls : calls[i].op = op})

\* C20: the collaborator calls of a request are made in the order: one
\* embedding call, then the vector search (if executed), then the full-text
\* search (if executed), then one retriever call per document id of the
\* document-chunk map, in the order of its keys; a search is made only
\* after the embedding returned, a retriever call only after the searches
\* of the method returned.
C20_CallOrder ==
    /\ pc # "start" => CallCount("encode") = 1 /\ calls[1].op = "encode"
    /\ CallCount("search_vector") <= 1
    /\ CallCount("search_full_text") <= 1
    /\ \A i, j \in DOMAIN calls :
        i < j => /\ CallStage(calls[i].op) <= CallStage(calls[j].op)
                 /\ calls[j].op \in {"search_vector", "search_full_text",
                                     "retrieve"} => ~FatalFailure(i)
    /\ Executed("retrieve") =>
        /\ Executed("search_vector") <=>
             retrieval_method \in {"full", "hibrid_no_ner", "dense"}
        /\ Executed("search_full_text") <=>
             retrieval_method \in {"full", "hibrid_no_ner", "full-text"}
    /\ \A i \in DOMAIN RetrieveCalls :
        /\ i <= Len(doc_chunks_id_map)
        /\ RetrieveCalls[i].arg = doc_chunks_id_map[i].id
    /\ pc = "done" => Len(RetrieveCalls) = Len(doc_chunks_id_map)

\* C20 witness: a "full" request has returned after the embedding, the two
\* searches and three retriever calls, in that order.
C20_Witness ==
    /\ pc = "done"
    /\ Len(calls) >= 6
    /\ [i \in 1..6 |-> calls[i].op] =
        <<"encode", "search_vector", "search_full_text",
          "retrieve", "retrieve", "retrieve">>
    /\ Len(doc_chunks_id_map) = 3

-----------------------------------------------------------------------------
(* Properties of the admission gate, checked under SpecGate *)

\* The requests whose call of the generation model is in progress.
Streaming == {r \in Requests : gpc[r] = "streaming"}

\* C21: the generation-API calls are serialized by the gate: at most one
\* request's call of the generation model (the stream stream_resp
\* consumes) is in progress at any time.
C21_SerializedGeneration == Cardinality(Streaming) <= 1

\* The permits the requests hold, all together.
RECURSIVE HeldUpTo(_)
HeldUpTo(n) == IF n = 0 THEN 0 ELSE holds[n] + HeldUpTo(n - 1)

\* C29: under any interleaving of /generate and /generate-test requests,
\* with waits that time out and handlers that raise, the permits of the
\* semaphore stay in {0, 1}, a request holds the permit from its admission
\* to the return of its handler and releases it exactly once, and the gate
\* is free whenever no admitted request is still in its handler.
C29_BalancedPermit ==
    /\ sem_value \in {0, 1}
    /\ \A r \in Requests :
        /\ holds[r] \in {0, 1}
        /\ holds[r] = 1 <=> gpc[r] = "admitted"
    /\ sem_value + HeldUpTo(MaxRequests) = 1
    /\ (\A r \in Requests : gpc[r] # "admitted") => sem_value = 1

\* C29 witness: a /generate-test request holds the permit while a /generate
\* request sleeps after a wait that timed out.
C29_Witness ==
    \E r, q \in Requests :
        /\ gpc[r] = "admitted" /\ endpoint[r] = "generate-test"
        /\ gpc[q] = "sleeping" /\ endpoint[q] = "generate"
        /\ sem_value = 0

-----------------------------------------------------------------------------
(* Properties of the admission gate, checked under SpecGateFair *)

\* The request is in the acquire loop of its handler.
InAcquireLoop(r) == gpc[r] \in {"acquiring", "waiting", "sleeping"}

\* C30: a request that finds the gate busy retries (an acquire attempt of
\* 0.1 s, then a sleep of 1 s) and, every admitted request releasing the
\* permit and the scheduling being fair, is eventually admitted: no request
\* stays in the acquire loop forever.
C30_AdmissionLiveness ==
    \A r \in Requests : InAcquireLoop(r) ~> (gpc[r] = "admitted")

\* A request arrives.
SomeArrival == \E q \in Requests : Arrive(q)

\* C30, amended: a request that finds the gate busy retries, and under
\* fair scheduling it is eventually admitted unless requests arrive for
\* ever: once no further request arrives, no request stays in the acquire
\* loop.
C30_AdmissionOnceArrivalsStop ==
    \A r \in Requests :
        \/ []<><<SomeArrival>>_vars
        \/ InAcquireLoop(r) ~> (gpc[r] = "admitted")

\* C30 witness: a request is admitted at a retry, after an attempt that
\* timed out and a sleep, while another request waits.
C30_Witness ==
    \E r, q \in Requests :
        /\ gpc[r] = "admitted" /\ attempts[r] > 1
        /\ gpc[q] = "waiting"

\* The filter clauses the two queries must carry for ids and collection c.
ExpectedClauses(ids, c) ==
    IF TruthyStr(c) THEN <<Terms(ids), Term(c.value)>> ELSE <<Terms(ids)>>

\* C23: with one or more target ids, the vector query is filtered on
\* exactly that id set (and on the collection id when one is given) with
\* k = knn_k and num_candidates = 1000, and the full-text query filters on
\* the same id set (and collection id); with no ids, neither query filters
\* on document ids and each filters on the collection exactly when a
\* collection id is given.
C23_FilterRegime ==
    Embedded =>
        IF Truthy(filter_ids)
        THEN /\ KnnClauses(query_body) = ExpectedClauses(filter_ids.ids, collection_id)
             /\ query_body.knn.k = knn_k
             /\ query_body.knn.num_candidates = 1000
             /\ FullTextClauses(query_full_text)
                    = ExpectedClauses(filter_ids.ids, collection_id)
        ELSE /\ IdsOf(KnnClauses(query_body)) = NoneIds
             /\ IdsOf(FullTextClauses(query_full_text)) = NoneIds
             /\ IF TruthyStr(collection_id)
                THEN /\ KnnClauses(query_body) = <<Term(collection_id.value)>>
                     /\ FullTextClauses(query_full_text) = <<Term(collection_id.value)>>
                ELSE /\ KnnClauses(query_body) = <<>>
                     /\ FullTextClauses(query_full_text) = <<>>

\* C23 witness: the queries of a request with two target ids and a
\* collection id were built.
C23_Witness ==
    /\ Embedded
    /\ ~filter_ids.none /\ Len(filter_ids.ids) = 2
    /\ collection_id = Collection("c1")
    /\ Len(KnnClauses(query_body)) = 2

\* The should clause of a full-text query.
ShouldOf(body) ==
    IF "bool" \in DOMAIN body.query
    THEN body.query.bool.must.nested.query.bool.should
    ELSE body.query.nested.query.bool.should

\* The fields the should clause of a full-text query matches the query on.
MatchedFields(body, q) ==
    {ShouldOf(body)[i].match.field :
        i \in {j \in DOMAIN ShouldOf(body) : ShouldOf(body)[j].match.query = q}}

\* C24: in both filter regimes the should clause of the full-text query
\* matches the chunk text, and it matches the chunk entities as well
\* exactly when the retrieval method is not hibrid_no_ner.
C24_EntityMatching ==
    Embedded =>
        /\ "chunks.vectors.text" \in MatchedFields(query_full_text, query)
        /\ "chunks.vectors.entities" \in MatchedFields(query_full_text, query)
              <=> retrieval_method # "hibrid_no_ner"
        /\ MatchedFields(query_full_text, query)
              \subseteq {"chunks.vectors.text", "chunks.vectors.entities"}
        /\ Len(ShouldOf(query_full_text))
              = Cardinality(MatchedFields(query_full_text, query))

\* C24 witness: the full-text search of a hibrid_no_ner request with
\* target ids ran with a query matching the chunk text alone.
C24_Witness ==
    /\ retrieval_method = "hibrid_no_ner"
    /\ Truthy(filter_ids)
    /\ Executed("search_full_text")
    /\ MatchedFields(query_full_text, query) = {"chunks.vectors.text"}

\* The sizes of single document mode, and those of multi document mode.
SingleSizing == knn_k = 50 /\ inner_hits_size = 50 /\ chunks_to_gather = 40

MultiSizing == knn_k = 25 /\ inner_hits_size = 30 /\ chunks_to_gather = 25

\* The selection ran: the map it built and the ranking it read stay as
\* they are until search returns.
Selected == pc \in {"selected", "done"}

\* C27: within one request the sizes, the RRF constant, the branch of the
\* chunk selection and the single-target rule of the policy all follow
\* the one test "exactly one target id", so single document parameters
\* never meet multi document selection or the reverse; a request with no
\* ids or an empty id list runs in multi document mode with unfiltered
\* queries.
C27_ModeConsistency ==
    /\ Embedded => IF OneTargetId THEN SingleSizing ELSE MultiSizing
    /\ pc \in {"fused", "selected", "done"} =>
        rrf_k = IF OneTargetId THEN 50 ELSE 30
    /\ Selected =>
        doc_chunks_id_map = IF OneTargetId
                            THEN SelectSingle(final_ranking, 40)
                            ELSE SelectMulti(final_ranking)
    /\ (pc = "done" /\ ~force_rag /\ QueryHasTrigger /\ Len(full_docs) > 0
            /\ token_count(full_docs) < TokenLimit) =>
        \A i \in DOMAIN doc_results : doc_results[i].full_docs = ~OneTargetId
    /\ (Embedded /\ ~Truthy(filter_ids)) =>
        /\ MultiSizing
        /\ IdsOf(KnnClauses(query_body)) = NoneIds
        /\ IdsOf(FullTextClauses(query_full_text)) = NoneIds
        /\ pc \in {"fused", "selected", "done"} => rrf_k = 30
        /\ Selected => doc_chunks_id_map = SelectMulti(final_ranking)

\* C27 witness: a request with two target ids, whose fused ranking holds
\* six chunks of one document, selected five of them as multi document
\* mode does, with the sizes and the RRF constant of that mode, and
\* returned the short document whole on a trigger keyword.
C27_Witness ==
    /\ pc = "done" /\ ~force_rag /\ QueryHasTrigger
    /\ ~filter_ids.none /\ Len(filter_ids.ids) = 2
    /\ Len(final_ranking) = 6
    /\ SelectSingle(final_ranking, 40) # SelectMulti(final_ranking)
    /\ MultiSizing /\ rrf_k = 30
    /\ Len(doc_results) = 1 /\ doc_results[1].full_docs

\* C26: a record with full_docs = true is returned only when force_rag is
\* not set, the lower-cased query contains a trigger keyword and the token
\* sum over all retrieved documents is at most 18000; and all records of
\* one response carry the same full_docs value.
C26_FullDocsOnlyUnderPolicy ==
    pc = "done" =>
        /\ \A i \in DOMAIN doc_results :
            doc_results[i].full_docs =>
                ~force_rag /\ QueryHasTrigger /\ TokenSum <= 18000
        /\ \A i, j \in DOMAIN doc_results :
            doc_results[i].full_docs = doc_results[j].full_docs

\* C26 witness: two documents of 9000 tokens each, a sum of exactly
\* 18000, were returned whole on a trigger keyword.
C26_Witness ==
    /\ pc = "done" /\ ~force_rag /\ QueryHasTrigger
    /\ Len(full_docs) = 2 /\ TokenSum = 18000
    /\ Len(doc_results) = 2
    /\ doc_results[1].full_docs /\ doc_results[2].full_docs

\* The fused score of the chunk a chunk record was built from.
RecordScore(record) == combined_scores[ChunkIdentity(record)]

\* The chunks of a record stand in non-increasing fused-score order.
ChunksByScore(chunks) ==
    \A a, b \in DOMAIN chunks :
        a < b => FracGeq(RecordScore(chunks[a]), RecordScore(chunks[b]))

\* Every chunk of document d scores at most as much as some chunk of
\* document e: the best chunk of e is at least as good as that of d.
BestAtLeast(e, d) ==
    \A c \in RankedOf(d) : \E b \in RankedOf(e) :
        FracGeq(combined_scores[b], combined_scores[c])

\* The selected documents whose retrieval did not fail, in map order.
SelectedNotFailed ==
    LET NotFailed(doc_id) == doc_id \notin FailedIds
    IN  SelectSeq([i \in 1..Len(doc_chunks_id_map) |-> doc_chunks_id_map[i].id],
                  NotFailed)

\* C28: in every chunk-based response the chunks of each record stand in
\* non-increasing fused-score order; in multi-document mode the records
\* stand in non-increasing order of the best chunk score of their
\* documents, the documents whose retrieval failed being removed and the
\* order of the others kept.
C28_ResultOrdering ==
    pc = "done" =>
        /\ \A i \in DOMAIN doc_results :
            ~doc_results[i].full_docs => ChunksByScore(doc_results[i].chunks)
        /\ ~OneTargetId =>
            /\ \A i, j \in DOMAIN doc_results :
                i < j => BestAtLeast(doc_results[i].doc.id, doc_results[j].doc.id)
            /\ ResultIds = SelectedNotFailed

\* C28 witness: a multi-document request whose fused ranking puts the
\* documents in another order than the index does; the retrieval of one
\* of three selected documents failed, the two records returned
\* differ strictly in best chunk score and one of them carries two chunks
\* of strictly decreasing score.
C28_Witness ==
    /\ pc = "done" /\ ~OneTargetId
    /\ Len(doc_chunks_id_map) = 3
    /\ Cardinality(FailedIds) = 1
    /\ Len(doc_results) = 2
    /\ ResultIds # <<DocId(1), DocId(2)>>
    /\ ~BestAtLeast(doc_results[2].doc.id, doc_results[1].doc.id)
    /\ \E i \in DOMAIN doc_results :
        /\ ~doc_results[i].full_docs
        /\ Len(doc_results[i].chunks) = 2
        /\ FracGt(RecordScore(doc_results[i].chunks[1]),
                  RecordScore(doc_results[i].chunks[2]))

-----------------------------------------------------------------------------
(* Properties of the faceted index query, checked under SpecFacets *)

\* A clause holds the collection to c: a term or a match_phrase on
\* collectionId with the value c, or a bool clause whose should
\* alternatives, one of which must match, all do.
RECURSIVE ConstrainsCollection(_, _)
ConstrainsCollection(m, c) ==
    \/ IsCollectionTerm(m) /\ m.term.value = c
    \/ /\ "match_phrase" \in DOMAIN m
       /\ m.match_phrase.field = "collectionId" /\ m.match_phrase.query = c
    \/ /\ "bool" \in DOMAIN m
       /\ "should" \in DOMAIN m.bool
       /\ m.bool.should # <<>>
       /\ m.bool.minimum_should_match >= 1
       /\ \A i \in DOMAIN m.bool.should : ConstrainsCollection(m.bool.should[i], c)

\* A search is held to collection c: its query is such a clause, or a
\* bool query with such a clause in its must list.
SearchConstrained(q, c) ==
    IF "bool" \in DOMAIN q /\ "must" \in DOMAIN q.bool
    THEN \E i \in DOMAIN q.bool.must : ConstrainsCollection(q.bool.must[i], c)
    ELSE ConstrainsCollection(q, c)

-----------------------------------------------------------------------------
(* Properties of concurrent searches, checked under SpecConcurrent *)

\* The documents the retriever loop leaves of the first n ids, the
\* retriever answering got[i] for ids[i].
RECURSIVE AloneDocs(_, _, _)
AloneDocs(ids, got, n) ==
    IF n = 0 THEN <<>>
    ELSE AfterRetrieve(AloneDocs(ids, got, n - 1), ids[n], got[n])

\* result is what search returns for the arguments a when it runs alone
\* and the collaborators answer ans: the searches with the rank maps of
\* ans, the retriever with the answers of ans to the same calls.
ReturnedAlone(a, ans, result) ==
    LET scores == CombinedScores(RrfK(a.filter_ids), ans.vector_ranks,
                                 ans.full_text_ranks)
    IN  \E order \in IterOrders(DOMAIN scores, CanonicalOrder) :
            LET map == SelectedMap(RankingIn(order, scores), a.filter_ids)
                ids == doc_ids(map)
            IN  /\ Len(ids) = Len(ans.retrieved)
                /\ result = prepare_results(AloneDocs(ids, ans.retrieved, Len(ids)),
                                            map, a.query, a.filter_ids, a.force_rag)

\* C22: no search writes the model, es_client, tokenizer, retrievers or
\* default_retriever of the instance, and under every interleaving of
\* concurrent requests each request returns what it returns when it runs
\* alone against the same collaborator answers.
C22_Statelessness ==
    /\ instance = InstanceAtInit
    /\ \A r \in Searches :
        cpc[r] = "done" => ReturnedAlone(cargs[r], canswers[r], cresult[r])

\* C22 witness: two requests with different arguments and different
\* answers ran side by side and both returned, with different results.
C22_Witness ==
    /\ cpc[1] = "done" /\ cpc[2] = "done"
    /\ overlapped
    /\ cargs[1] # cargs[2]
    /\ canswers[1].vector_ranks # canswers[2].vector_ranks
    /\ cresult[1] # <<>> /\ cresult[2] # <<>>
    /\ cresult[1] # cresult[2]

=============================================================================
